---- MODULE Spec2Model ----
(***************************************************************************)
(* PNG filter-method-0 reconstruction kernels of the png_filters crate.    *)
(*                                                                         *)
(* Every kernel is a pure function of (BYTES_PER_PIXEL, filtered_row,      *)
(* previous_row) that rewrites filtered_row in place.  A kernel is an      *)
(* operator computed chunk by chunk as the code computes it; a call is an  *)
(* action that replaces filtered_row by the kernel's result.  Vector       *)
(* registers are sequences of byte lanes (little endian), so that lane     *)
(* arithmetic, widening and narrowing are computed, not assumed.           *)
(***************************************************************************)
EXTENDS Integers, Sequences, FiniteSets, TLC

VARIABLES
  BYTES_PER_PIXEL,   \* the const generic parameter of the call
  input_row,         \* filtered_row as it was handed to the kernel
  previous_row,      \* the row above (ignored by the one-row kernels)
  filtered_row,      \* the row the kernel mutates in place
  kernel,            \* "none" before the call, then the kernel that ran
  debug_assertions,  \* TRUE in a build that keeps the debug_assert checks
  panicked,          \* TRUE once a call has aborted
  lines,             \* unfilter_lines: the rows of the image, tag byte first
  input_lines,       \* the rows as they were handed to unfilter_lines
  line_index,        \* the next row unfilter_lines handles (1-based)
  previous_args,     \* per handled row, the previous-row argument it passed
  selected           \* the kernel family unfilter_lines selected for the call

kernel_vars == <<BYTES_PER_PIXEL, input_row, previous_row, filtered_row, kernel>>

lines_vars == <<lines, input_lines, line_index, previous_args, selected>>

vars == <<kernel_vars, debug_assertions, panicked, lines_vars>>

----------------------------------------------------------------------------
(* Bounds of the input space *)

\* number of pixel groups in a row: 0 .. MaxGroups
MaxGroups == 2

\* the largest BYTES_PER_PIXEL the kernels accept
MaxBPP == 8

\* byte values drawn for the first byte of each pixel group
ByteSamples == {0, 1, 2, 3, 255}

\* byte values drawn for the first byte of the second pixel group of the row
SecondSamples == {2, 255}

\* the longest row handed to a kernel whose preconditions are broken
MaxLen == 6

\* one longer row: two pixel groups at one past the largest BYTES_PER_PIXEL
LongLen == 2 * (MaxBPP + 1)

\* first bytes of those rows
RaggedSamples == {1, 250}

\* the most rows of an image handed to unfilter_lines
MaxLines == 2

\* pixel groups in a row of such an image
LineGroups == 2

\* BYTES_PER_PIXEL of such a call: in range, and one past the bound
LinesBPP == {1, 3, 9}

\* tag bytes: the five filter types and two unrecognised values
TagSamples == {0, 1, 2, 3, 4, 5, 255}

\* first payload byte of a row of such an image
LineSamples == {3, 255}

----------------------------------------------------------------------------
(* Integer helpers *)

Min(x, y) == IF x <= y THEN x ELSE y

\* a function over 1..n as the sequence of its values
seq(f) == f @@ <<>>

\* i16::abs
abs(v) == IF v < 0 THEN 0 - v ELSE v

\* Rust integer division truncates toward zero
rust_div(n, d) == IF n >= 0 THEN n \div d ELSE 0 - ((0 - n) \div d)

\* an integer as the i16 that holds it when the arithmetic wraps
as_i16(v) == LET u == v % 65536 IN IF u >= 32768 THEN u - 65536 ELSE u

\* `as u8`: keep the low 8 bits
as_u8(v) == v % 256

\* u8::wrapping_add
wrapping_add(x, y) == (x + y) % 256

\* the bytes of chunk number k (0-based) of chunks_exact(size)
chunk_of(row, size, k) == seq([j \in 1..size |-> row[k * size + j]])

\* chunk.copy_from_slice(x): chunk number k of the row is overwritten by x
copy_from_slice(row, size, k, x) ==
  seq([i \in 1..Len(row) |-> IF i > k * size /\ i <= (k + 1) * size THEN x[i - k * size] ELSE row[i]])

\* [0; N]
zeroes(N) == seq([j \in 1..N |-> 0])

----------------------------------------------------------------------------
(* The checks at the head of every kernel *)

\* assert!(BYTES_PER_PIXEL <= 8) with a bound that lets 9..16 through
assert_bytes_per_pixel_m128i(BPP) == BPP <= 16

\* assert!(BYTES_PER_PIXEL <= 8): checked in every build
assert_bytes_per_pixel(BPP) == BPP <= 8

\* the row-length check kept in every build
debug_assert_row_len_always(debug, BPP, row) ==
  BPP # 0 /\ Len(row) % BPP = 0

\* debug_assert_eq!(filtered_row.len() % BYTES_PER_PIXEL, 0): checked in a
\* debug build only, where the remainder by 0 aborts as well
debug_assert_row_len(debug, BPP, row) ==
  debug => (BPP # 0 /\ Len(row) % BPP = 0)

\* the length comparison compiled out of every build
debug_assert_same_len_never(debug, row, prev) == TRUE

\* debug_assert_eq!(filtered_row.len(), previous_row.len()): debug build only
debug_assert_same_len(debug, row, prev) ==
  debug => (Len(row) = Len(prev))

\* chunks_exact_mut(BYTES_PER_PIXEL) aborts on a chunk size of 0
chunks_exact_mut_size(BPP) == BPP # 0

\* TRUE when the checks of a one-row kernel (Sub, AverageTop) let the call
\* reach its loop; they all precede the first write to the row
one_row_kernel_returns(debug, BPP, row) ==
  /\ assert_bytes_per_pixel(BPP)
  /\ debug_assert_row_len(debug, BPP, row)
  /\ chunks_exact_mut_size(BPP)

\* the same for a two-row kernel (Average, Paeth)
two_row_kernel_returns(debug, BPP, row, prev) ==
  /\ assert_bytes_per_pixel(BPP)
  /\ debug_assert_row_len(debug, BPP, row)
  /\ debug_assert_same_len(debug, row, prev)
  /\ chunks_exact_mut_size(BPP)

\* Up has no BYTES_PER_PIXEL and checks the two lengths only
recon_up_returns(debug, row, prev) == debug_assert_same_len(debug, row, prev)

----------------------------------------------------------------------------
(* Scalar kernels at the crate root (lib.rs) *)

\* recon_sub_fallback_chunks with the filtered chunk, not the reconstructed
\* one, carried to the next pixel group
RECURSIVE recon_sub_fallback_chunks_filtered_left(_, _, _, _)
recon_sub_fallback_chunks_filtered_left(BPP, row, k, a) ==
  IF k >= Len(row) \div BPP THEN row
  ELSE LET chunk == chunk_of(row, BPP, k)
           x == seq([j \in 1..BPP |-> wrapping_add(chunk[j], a[j])])
       IN recon_sub_fallback_chunks_filtered_left(BPP, copy_from_slice(row, BPP, k, x), k + 1, chunk)

RECURSIVE recon_sub_fallback_chunks(_, _, _, _)
recon_sub_fallback_chunks(BPP, row, k, a) ==
  IF k >= Len(row) \div BPP THEN row
  ELSE LET chunk == chunk_of(row, BPP, k)
           x == seq([j \in 1..BPP |-> wrapping_add(chunk[j], a[j])])
       IN recon_sub_fallback_chunks(BPP, copy_from_slice(row, BPP, k, x), k + 1, x)

recon_sub_fallback(BPP, row) == recon_sub_fallback_chunks(BPP, row, 0, zeroes(BPP))

\* recon_up_fallback with a saturating add
recon_up_fallback_saturating(row, prev) ==
  seq([i \in 1..Len(row) |-> IF i <= Len(prev) THEN Min(255, row[i] + prev[i]) ELSE row[i]])

recon_up_fallback(row, prev) ==
  seq([i \in 1..Len(row) |-> IF i <= Len(prev) THEN wrapping_add(row[i], prev[i]) ELSE row[i]])

\* average_fallback_byte with the sum a + b formed in 8 bits
average_fallback_byte_u8_sum(x, a, b) ==
  LET average == ((a + b) % 256) \div 2
  IN wrapping_add(x, average)

\* the closure body of recon_average_fallback for one byte
average_fallback_byte(x, a, b) ==
  LET average == as_u8(rust_div(a + b, 2))
  IN wrapping_add(x, average)

\* recon_average_fallback_chunks with a taken one byte further right in the
\* group before, the neighbouring channel
RECURSIVE recon_average_fallback_chunks_rotated_a(_, _, _, _, _)
recon_average_fallback_chunks_rotated_a(BPP, row, prev, k, a) ==
  IF k >= Min(Len(row) \div BPP, Len(prev) \div BPP) THEN row
  ELSE LET x_chunk == chunk_of(row, BPP, k)
           b == chunk_of(prev, BPP, k)
           x == seq([j \in 1..BPP |-> average_fallback_byte(x_chunk[j], a[(j % BPP) + 1], b[j])])
       IN recon_average_fallback_chunks_rotated_a(BPP, copy_from_slice(row, BPP, k, x), prev, k + 1, x)

RECURSIVE recon_average_fallback_chunks(_, _, _, _, _)
recon_average_fallback_chunks(BPP, row, prev, k, a) ==
  IF k >= Min(Len(row) \div BPP, Len(prev) \div BPP) THEN row
  ELSE LET x_chunk == chunk_of(row, BPP, k)
           b == chunk_of(prev, BPP, k)
           x == seq([j \in 1..BPP |-> average_fallback_byte(x_chunk[j], a[j], b[j])])
       IN recon_average_fallback_chunks(BPP, copy_from_slice(row, BPP, k, x), prev, k + 1, x)

recon_average_fallback(BPP, row, prev) ==
  recon_average_fallback_chunks(BPP, row, prev, 0, zeroes(BPP))

\* recon_average_top_fallback_chunks with the half of a rounded up
RECURSIVE recon_average_top_fallback_chunks_round_up(_, _, _, _)
recon_average_top_fallback_chunks_round_up(BPP, row, k, a) ==
  IF k >= Len(row) \div BPP THEN row
  ELSE LET chunk == chunk_of(row, BPP, k)
           x == seq([j \in 1..BPP |-> wrapping_add(chunk[j], (a[j] + 1) \div 2)])
       IN recon_average_top_fallback_chunks_round_up(BPP, copy_from_slice(row, BPP, k, x), k + 1, x)

RECURSIVE recon_average_top_fallback_chunks(_, _, _, _)
recon_average_top_fallback_chunks(BPP, row, k, a) ==
  IF k >= Len(row) \div BPP THEN row
  ELSE LET chunk == chunk_of(row, BPP, k)
           x == seq([j \in 1..BPP |-> wrapping_add(chunk[j], a[j] \div 2)])
       IN recon_average_top_fallback_chunks(BPP, copy_from_slice(row, BPP, k, x), k + 1, x)

\* recon_average_top_fallback adding the whole left byte, as Sub does
recon_average_top_fallback_whole_a(BPP, row) ==
  recon_sub_fallback_chunks(BPP, row, 0, zeroes(BPP))

recon_average_top_fallback(BPP, row) ==
  recon_average_top_fallback_chunks(BPP, row, 0, zeroes(BPP))

\* let p: i16 = *a as i16 + *b as i16 - *c as i16
paeth_fallback_p(a, b, c) == as_i16(as_i16(a + b) - c)

\* (p - *v as i16).abs(), one of pa, pb, pc
paeth_fallback_distance(p, v) == as_i16(abs(as_i16(p - v)))

\* paeth_fallback_byte with the distances of a and b exchanged
paeth_fallback_byte_swapped(x, a, b, c) ==
  LET p == a + b - c
      pa == abs(p - b)
      pb == abs(p - a)
      pc == abs(p - c)
  IN wrapping_add(x, IF pa <= pb /\ pa <= pc THEN a
                     ELSE IF pb <= pc THEN b
                     ELSE c)

\* paeth_fallback_byte with < in place of <=
paeth_fallback_byte_strict(x, a, b, c) ==
  LET p == a + b - c
      pa == abs(p - a)
      pb == abs(p - b)
      pc == abs(p - c)
  IN wrapping_add(x, IF pa < pb /\ pa < pc THEN a
                     ELSE IF pb < pc THEN b
                     ELSE c)

\* the closure body of recon_paeth_fallback for one byte
paeth_fallback_byte(x, a, b, c) ==
  LET p == paeth_fallback_p(a, b, c)
      pa == paeth_fallback_distance(p, a)
      pb == paeth_fallback_distance(p, b)
      pc == paeth_fallback_distance(p, c)
  IN wrapping_add(x, IF pa <= pb /\ pa <= pc THEN a
                     ELSE IF pb <= pc THEN b
                     ELSE c)

RECURSIVE recon_paeth_fallback_chunks(_, _, _, _, _, _)
recon_paeth_fallback_chunks(BPP, row, prev, k, a, c) ==
  IF k >= Min(Len(row) \div BPP, Len(prev) \div BPP) THEN row
  ELSE LET x_chunk == chunk_of(row, BPP, k)
           b == chunk_of(prev, BPP, k)
           x == seq([j \in 1..BPP |-> paeth_fallback_byte(x_chunk[j], a[j], b[j], c[j])])
       IN recon_paeth_fallback_chunks(BPP, copy_from_slice(row, BPP, k, x), prev, k + 1, x, b)

\* recon_paeth_fallback with c starting as the first group of the row above
\* in place of zeroes
recon_paeth_fallback_c_from_b(BPP, row, prev) ==
  recon_paeth_fallback_chunks(BPP, row, prev, 0, zeroes(BPP),
                              IF Len(prev) >= BPP THEN chunk_of(prev, BPP, 0) ELSE zeroes(BPP))

recon_paeth_fallback(BPP, row, prev) ==
  recon_paeth_fallback_chunks(BPP, row, prev, 0, zeroes(BPP), zeroes(BPP))

----------------------------------------------------------------------------
(* Scalar kernels of the fallbacks module (fallbacks.rs) *)

RECURSIVE fallbacks_recon_sub_chunks(_, _, _, _)
fallbacks_recon_sub_chunks(BPP, row, k, a) ==
  IF k >= Len(row) \div BPP THEN row
  ELSE LET chunk == chunk_of(row, BPP, k)
           x == seq([j \in 1..BPP |-> wrapping_add(chunk[j], a[j])])
       IN fallbacks_recon_sub_chunks(BPP, copy_from_slice(row, BPP, k, x), k + 1, x)

fallbacks_recon_sub(BPP, row) == fallbacks_recon_sub_chunks(BPP, row, 0, zeroes(BPP))

\* fallbacks_paeth_byte with the predictor taken from the row above only
fallbacks_paeth_byte_above(x, a, b, c) ==
  LET p == a + b - c
      pb == abs(p - b)
      pc == abs(p - c)
  IN wrapping_add(x, IF pb <= pc THEN b ELSE c)

\* the closure body of fallbacks::recon_paeth for one byte
fallbacks_paeth_byte(x, a, b, c) ==
  LET p == paeth_fallback_p(a, b, c)
      pa == paeth_fallback_distance(p, a)
      pb == paeth_fallback_distance(p, b)
      pc == paeth_fallback_distance(p, c)
  IN wrapping_add(x, IF pa <= pb /\ pa <= pc THEN a
                     ELSE IF pb <= pc THEN b
                     ELSE c)

RECURSIVE fallbacks_recon_paeth_chunks(_, _, _, _, _, _)
fallbacks_recon_paeth_chunks(BPP, row, prev, k, a, c) ==
  IF k >= Min(Len(row) \div BPP, Len(prev) \div BPP) THEN row
  ELSE LET x_chunk == chunk_of(row, BPP, k)
           b == chunk_of(prev, BPP, k)
           x == seq([j \in 1..BPP |-> fallbacks_paeth_byte(x_chunk[j], a[j], b[j], c[j])])
       IN fallbacks_recon_paeth_chunks(BPP, copy_from_slice(row, BPP, k, x), prev, k + 1, x, b)

fallbacks_recon_paeth(BPP, row, prev) ==
  fallbacks_recon_paeth_chunks(BPP, row, prev, 0, zeroes(BPP), zeroes(BPP))

----------------------------------------------------------------------------
(* x86 registers: an __m128i is its 16 bytes, lowest address first *)

\* size_of::<__m128i>()
M128I_BYTES == 16

\* core::mem::transmute([0_u64; 2]) and core::mem::zeroed::<__m128i>()
ZEROED == seq([i \in 1..M128I_BYTES |-> 0])

\* the signed 16-bit value of lane j (1-based) of a register
i16_lane(m, j) ==
  LET u == m[2 * j - 1] + 256 * m[2 * j]
  IN IF u >= 32768 THEN u - 65536 ELSE u

\* the register whose 16-bit lanes hold the integers v[1..8], each wrapped to 16 bits
from_i16_lanes(v) ==
  seq([i \in 1..M128I_BYTES |->
     LET u == v[(i + 1) \div 2] % 65536
     IN IF i % 2 = 1 THEN u % 256 ELSE u \div 256])

\* the number of i16 lanes of a register
I16_LANES == M128I_BYTES \div 2

RECURSIVE bit_and(_, _, _)
bit_and(x, y, width) ==
  IF width = 0 THEN 0
  ELSE (x % 2) * (y % 2) + 2 * bit_and(x \div 2, y \div 2, width - 1)

RECURSIVE bit_or(_, _, _)
bit_or(x, y, width) ==
  IF width = 0 THEN 0
  ELSE (IF x % 2 = 1 \/ y % 2 = 1 THEN 1 ELSE 0) + 2 * bit_or(x \div 2, y \div 2, width - 1)

\* _mm_add_epi8 done on 16-bit lanes: the low byte carries into the high one
_mm_add_epi8_as_epi16(x, y) ==
  from_i16_lanes(seq([j \in 1..I16_LANES |-> i16_lane(x, j) + i16_lane(y, j)]))

_mm_add_epi8(x, y) == seq([i \in 1..M128I_BYTES |-> (x[i] + y[i]) % 256])

\* _mm_add_epi16 adding in 8-bit lanes: no carry into the high byte
_mm_add_epi16_as_epi8(x, y) == _mm_add_epi8(x, y)

_mm_add_epi16(x, y) == from_i16_lanes(seq([j \in 1..I16_LANES |-> i16_lane(x, j) + i16_lane(y, j)]))

_mm_sub_epi16(x, y) == from_i16_lanes(seq([j \in 1..I16_LANES |-> i16_lane(x, j) - i16_lane(y, j)]))

_mm_abs_epi16(x) == from_i16_lanes(seq([j \in 1..I16_LANES |-> abs(i16_lane(x, j))]))

\* arithmetic shift right of every 16-bit lane: floor(v / 2^n), sign kept
RECURSIVE pow2(_)
pow2(n) == IF n = 0 THEN 1 ELSE 2 * pow2(n - 1)

_mm_srai_epi16(x, n) ==
  from_i16_lanes(seq([j \in 1..I16_LANES |->
    LET v == i16_lane(x, j)
    IN IF v >= 0 THEN v \div pow2(n) ELSE 0 - (((0 - v) + pow2(n) - 1) \div pow2(n))]))

\* signed 16-bit lanes of x then of y, each saturated to 0..255
_mm_packus_epi16(x, y) ==
  seq([i \in 1..M128I_BYTES |->
     LET v == IF i <= I16_LANES THEN i16_lane(x, i) ELSE i16_lane(y, i - I16_LANES)
     IN IF v < 0 THEN 0 ELSE IF v > 255 THEN 255 ELSE v])

\* the low 8 bytes of x and of y interleaved: x1 y1 x2 y2 ...
_mm_unpacklo_epi8(x, y) ==
  seq([i \in 1..M128I_BYTES |-> IF i % 2 = 1 THEN x[(i + 1) \div 2] ELSE y[i \div 2]])

_mm_cmplt_epi16(x, y) ==
  from_i16_lanes(seq([j \in 1..I16_LANES |-> IF i16_lane(x, j) < i16_lane(y, j) THEN 65535 ELSE 0]))

_mm_cmpeq_epi16(x, y) ==
  from_i16_lanes(seq([j \in 1..I16_LANES |-> IF i16_lane(x, j) = i16_lane(y, j) THEN 65535 ELSE 0]))

_mm_or_si128(x, y) == seq([i \in 1..M128I_BYTES |-> bit_or(x[i], y[i], 8)])

_mm_and_si128(x, y) == seq([i \in 1..M128I_BYTES |-> bit_and(x[i], y[i], 8)])

\* byte i comes from y when the top bit of mask byte i is set, else from x
_mm_blendv_epi8(x, y, mask) ==
  seq([i \in 1..M128I_BYTES |-> IF mask[i] >= 128 THEN y[i] ELSE x[i]])

\* core::mem::size_of::<u8>()
size_of_u8 == 1

\* core::mem::size_of::<i16>()
size_of_i16 == 2

\* the bytes spanned by core::slice::from_raw_parts_mut(data, len) over
\* elements of the given size
from_raw_parts_mut_bytes(len, size) == len * size

\* the elements (1-based) of view[..BPP]
prefix_reach(BPP) == 1..BPP

\* the elements (1-based) of the view that
\* view.iter_mut().zip(b_chunk.iter()).for_each(..) writes
zip_reach(view_len, b_chunk) == 1..Min(view_len, Len(b_chunk))

\* the length of the u8 view of a register (sse2.rs)
m128i_as_mut_slice_len == M128I_BYTES

\* the length of the u8 view of a register (sse4_1.rs)
m128i_as_mut_u8s_len == M128I_BYTES \div 1

\* the length of the i16 view of a register (sse4_1.rs)
m128i_as_mut_i16s_len == M128I_BYTES \div 2

\* ZEROED with view[..BPP].copy_from_slice(chunk)
m128i_load_u8s(chunk, BPP) ==
  seq([i \in 1..M128I_BYTES |-> IF i <= BPP THEN chunk[i] ELSE 0])

\* ZEROED with view.iter_mut().zip(b_chunk.iter()).for_each(|(j, k)| *j = *k as i16)
m128i_load_i16s(b_chunk) ==
  from_i16_lanes(seq([j \in 1..I16_LANES |->
    IF j <= Min(m128i_as_mut_i16s_len, Len(b_chunk)) THEN b_chunk[j] ELSE 0]))

\* &view[..BPP], the bytes copied back into the chunk
m128i_store_u8s(x, BPP) == seq([j \in 1..BPP |-> x[j]])

\* i16_le_sse2 without the eq half: a < in place of <=
i16_le_sse2_strict(x, y) ==
  LET lt == _mm_cmplt_epi16(x, y)
  IN _mm_or_si128(lt, lt)

\* lt | eq of the signed 16-bit lanes
i16_le_sse2(x, y) ==
  LET lt == _mm_cmplt_epi16(x, y)
      eq == _mm_cmpeq_epi16(x, y)
  IN _mm_or_si128(lt, eq)

----------------------------------------------------------------------------
(* sse2.rs *)

RECURSIVE sse2_recon_sub_chunks(_, _, _, _)
sse2_recon_sub_chunks(BPP, row, k, a) ==
  IF k >= Len(row) \div BPP THEN row
  ELSE LET chunk == chunk_of(row, BPP, k)
           x == _mm_add_epi8(m128i_load_u8s(chunk, BPP), a)
       IN sse2_recon_sub_chunks(BPP, copy_from_slice(row, BPP, k, m128i_store_u8s(x, BPP)), k + 1, x)

sse2_recon_sub(BPP, row) == sse2_recon_sub_chunks(BPP, row, 0, ZEROED)

----------------------------------------------------------------------------
(* sse4_1.rs *)

RECURSIVE sse4_1_recon_sub_chunks(_, _, _, _)
sse4_1_recon_sub_chunks(BPP, row, k, a) ==
  IF k >= Len(row) \div BPP THEN row
  ELSE LET chunk == chunk_of(row, BPP, k)
           x == _mm_add_epi8(m128i_load_u8s(chunk, BPP), a)
       IN sse4_1_recon_sub_chunks(BPP, copy_from_slice(row, BPP, k, m128i_store_u8s(x, BPP)), k + 1, x)

sse4_1_recon_sub(BPP, row) == sse4_1_recon_sub_chunks(BPP, row, 0, ZEROED)

sse4_1_recon_up(row, prev) ==
  seq([i \in 1..Len(row) |-> IF i <= Len(prev) THEN wrapping_add(row[i], prev[i]) ELSE row[i]])

\* one pixel group of sse4_1::recon_average: the new register x
sse4_1_average_group(x0, a, b) ==
  LET average == _mm_srai_epi16(_mm_add_epi16(a, b), 1)
      average_u8 == _mm_packus_epi16(average, ZEROED)
  IN _mm_add_epi8(x0, average_u8)

RECURSIVE sse4_1_recon_average_chunks(_, _, _, _, _)
sse4_1_recon_average_chunks(BPP, row, prev, k, a) ==
  IF k >= Min(Len(row) \div BPP, Len(prev) \div BPP) THEN row
  ELSE LET x_chunk == chunk_of(row, BPP, k)
           b == m128i_load_i16s(chunk_of(prev, BPP, k))
           x == sse4_1_average_group(m128i_load_u8s(x_chunk, BPP), a, b)
       IN sse4_1_recon_average_chunks(BPP, copy_from_slice(row, BPP, k, m128i_store_u8s(x, BPP)),
                                      prev, k + 1, _mm_unpacklo_epi8(x, ZEROED))

sse4_1_recon_average(BPP, row, prev) == sse4_1_recon_average_chunks(BPP, row, prev, 0, ZEROED)

\* the registers x of sse4_1::recon_average after the pixel groups 0..k, in
\* the order the loop computes them; xs holds the groups already done
RECURSIVE sse4_1_average_xs(_, _, _, _, _, _)
sse4_1_average_xs(BPP, row, prev, k, a, xs) ==
  IF Len(xs) > k THEN xs
  ELSE LET b == m128i_load_i16s(chunk_of(prev, BPP, Len(xs)))
           x == sse4_1_average_group(m128i_load_u8s(chunk_of(row, BPP, Len(xs)), BPP), a, b)
       IN sse4_1_average_xs(BPP, row, prev, k, _mm_unpacklo_epi8(x, ZEROED), Append(xs, x))

\* the register x of sse4_1::recon_average after pixel group k (0-based)
sse4_1_average_x(BPP, row, prev, k) == sse4_1_average_xs(BPP, row, prev, k, ZEROED, <<>>)[k + 1]

\* one pixel group of sse4_1::recon_average_top: the new register x
sse4_1_average_top_group(x0, a) ==
  LET half_a == _mm_srai_epi16(a, 1)
      half_a_u8 == _mm_packus_epi16(half_a, ZEROED)
  IN _mm_add_epi8(x0, half_a_u8)

RECURSIVE sse4_1_recon_average_top_chunks(_, _, _, _)
sse4_1_recon_average_top_chunks(BPP, row, k, a) ==
  IF k >= Len(row) \div BPP THEN row
  ELSE LET chunk == chunk_of(row, BPP, k)
           x == sse4_1_average_top_group(m128i_load_u8s(chunk, BPP), a)
       IN sse4_1_recon_average_top_chunks(BPP, copy_from_slice(row, BPP, k, m128i_store_u8s(x, BPP)),
                                          k + 1, _mm_unpacklo_epi8(x, ZEROED))

sse4_1_recon_average_top(BPP, row) == sse4_1_recon_average_top_chunks(BPP, row, 0, ZEROED)

\* let p = _mm_sub_epi16(_mm_add_epi16(a, b), c)
sse4_1_paeth_p(a, b, c) == _mm_sub_epi16(_mm_add_epi16(a, b), c)

\* _mm_abs_epi16(_mm_sub_epi16(p, v)), one of pa, pb, pc
sse4_1_paeth_distance(p, v) == _mm_abs_epi16(_mm_sub_epi16(p, v))

\* the 16-bit predictor lanes of one pixel group of sse4_1::recon_paeth
sse4_1_paeth16(a, b, c) ==
  LET p == sse4_1_paeth_p(a, b, c)
      pa == sse4_1_paeth_distance(p, a)
      pb == sse4_1_paeth_distance(p, b)
      pc == sse4_1_paeth_distance(p, c)
      pa_le_pb == i16_le_sse2(pa, pb)
      pa_le_pc == i16_le_sse2(pa, pc)
      pa_le_pb_and_pa_le_pc == _mm_and_si128(pa_le_pb, pa_le_pc)
      pb_le_pc == i16_le_sse2(pb, pc)
      pick_b_or_c == _mm_blendv_epi8(c, b, pb_le_pc)
  IN _mm_blendv_epi8(pick_b_or_c, a, pa_le_pb_and_pa_le_pc)

\* one pixel group of sse4_1::recon_paeth: the new register x
sse4_1_paeth_group(x0, a, b, c) ==
  LET paeth == _mm_packus_epi16(sse4_1_paeth16(a, b, c), ZEROED)
  IN _mm_add_epi8(x0, paeth)

RECURSIVE sse4_1_recon_paeth_chunks(_, _, _, _, _, _)
sse4_1_recon_paeth_chunks(BPP, row, prev, k, a, c) ==
  IF k >= Min(Len(row) \div BPP, Len(prev) \div BPP) THEN row
  ELSE LET x_chunk == chunk_of(row, BPP, k)
           b == m128i_load_i16s(chunk_of(prev, BPP, k))
           x == sse4_1_paeth_group(m128i_load_u8s(x_chunk, BPP), a, b, c)
       IN sse4_1_recon_paeth_chunks(BPP, copy_from_slice(row, BPP, k, m128i_store_u8s(x, BPP)),
                                    prev, k + 1, _mm_unpacklo_epi8(x, ZEROED), b)

sse4_1_recon_paeth(BPP, row, prev) ==
  sse4_1_recon_paeth_chunks(BPP, row, prev, 0, ZEROED, ZEROED)

----------------------------------------------------------------------------
(* aarch64 registers: uint8x8_t and uint8x16_t are sequences of bytes,      *)
(* int16x8_t of signed and uint16x8_t of unsigned 16-bit lanes             *)

\* size_of::<uint8x8_t>()
UINT8X8_BYTES == 8

\* size_of::<int16x8_t>()
INT16X8_BYTES == 16

\* the number of lanes of an int16x8_t
INT16X8_LANES == 8

\* core::mem::zeroed::<uint8x8_t>()
uint8x8_t_zeroed == seq([i \in 1..UINT8X8_BYTES |-> 0])

\* core::mem::zeroed::<int16x8_t>()
int16x8_t_zeroed == seq([j \in 1..INT16X8_LANES |-> 0])

\* core::mem::zeroed::<uint8x16_t>()
uint8x16_t_zeroed == seq([i \in 1..INT16X8_BYTES |-> 0])

\* an integer wrapped to a signed 16-bit lane
wrap_s16(v) == LET u == v % 65536 IN IF u >= 32768 THEN u - 65536 ELSE u

\* the length of the u8 view of a uint8x8_t
uint8x8_t_as_mut_slice_len == UINT8X8_BYTES

\* the length, in i16 elements, of the view of an int16x8_t
int16x8_t_as_mut_slice_len == INT16X8_BYTES

vld1_u8(chunk) == seq([i \in 1..UINT8X8_BYTES |-> chunk[i]])

vst1_u8(x) == seq([i \in 1..UINT8X8_BYTES |-> x[i]])

uint8x8_t_load(BPP, chunk) ==
  IF BPP = 8 THEN vld1_u8(chunk)
  ELSE seq([i \in 1..UINT8X8_BYTES |-> IF i <= BPP THEN chunk[i] ELSE 0])

\* the bytes uint8x8_t_store writes to the chunk
uint8x8_t_store(BPP, x) ==
  IF BPP = 8 THEN vst1_u8(x)
  ELSE seq([j \in 1..BPP |-> x[j]])

vadd_u8(x, y) == seq([i \in 1..UINT8X8_BYTES |-> (x[i] + y[i]) % 256])

\* vhadd_u8 with the sum wrapped to 8 bits before it is halved
vhadd_u8_wrapping(x, y) == seq([i \in 1..UINT8X8_BYTES |-> ((x[i] + y[i]) % 256) \div 2])

\* halving add: (x + y) >> 1 on the full-width sum
vhadd_u8(x, y) == seq([i \in 1..UINT8X8_BYTES |-> (x[i] + y[i]) \div 2])

vshr_n_u8(x, n) == seq([i \in 1..UINT8X8_BYTES |-> x[i] \div pow2(n)])

vaddq_s16(x, y) == seq([j \in 1..INT16X8_LANES |-> wrap_s16(x[j] + y[j])])

vsubq_s16(x, y) == seq([j \in 1..INT16X8_LANES |-> wrap_s16(x[j] - y[j])])

vabsq_s16(x) == seq([j \in 1..INT16X8_LANES |-> wrap_s16(abs(x[j]))])

vcleq_s16(x, y) == seq([j \in 1..INT16X8_LANES |-> IF x[j] <= y[j] THEN 65535 ELSE 0])

vandq_u16(x, y) == seq([j \in 1..INT16X8_LANES |-> bit_and(x[j], y[j], 16)])

\* bitwise select: the bits of x where mask is set, the bits of y elsewhere
vbslq_s16(mask, x, y) ==
  seq([j \in 1..INT16X8_LANES |->
    wrap_s16(bit_or(bit_and(mask[j], x[j] % 65536, 16),
                    bit_and(65535 - mask[j], y[j] % 65536, 16), 16))])

\* the bytes of the 16-bit lanes, low byte first
vreinterpretq_u8_s16(x) ==
  seq([i \in 1..INT16X8_BYTES |->
    LET u == x[(i + 1) \div 2] % 65536
    IN IF i % 2 = 1 THEN u % 256 ELSE u \div 256])

\* the signed 16-bit lanes made of byte pairs, low byte first
vreinterpretq_s16_u8(x) ==
  seq([j \in 1..INT16X8_LANES |-> wrap_s16(x[2 * j - 1] + 256 * x[2 * j])])

\* the even-numbered (0, 2, ...) bytes of x, then those of y
vuzp1q_u8(x, y) ==
  seq([i \in 1..INT16X8_BYTES |->
    IF i <= UINT8X8_BYTES THEN x[2 * i - 1] ELSE y[2 * (i - UINT8X8_BYTES) - 1]])

vget_low_u8(x) == seq([i \in 1..UINT8X8_BYTES |-> x[i]])

vcombine_u8(lo, hi) ==
  seq([i \in 1..INT16X8_BYTES |-> IF i <= UINT8X8_BYTES THEN lo[i] ELSE hi[i - UINT8X8_BYTES]])

\* the low halves of x and y interleaved: x1 y1 x2 y2 ...
vzip1q_u8(x, y) ==
  seq([i \in 1..INT16X8_BYTES |-> IF i % 2 = 1 THEN x[(i + 1) \div 2] ELSE y[i \div 2]])

\* zeroed int16x8_t with view.iter_mut().zip(b_chunk.iter()).for_each(|(j, k)| *j = *k as i16)
int16x8_t_load(b_chunk) ==
  seq([j \in 1..INT16X8_LANES |->
    IF j <= Min(int16x8_t_as_mut_slice_len, Len(b_chunk)) THEN b_chunk[j] ELSE 0])

----------------------------------------------------------------------------
(* neon.rs *)

RECURSIVE neon_recon_sub_chunks(_, _, _, _)
neon_recon_sub_chunks(BPP, row, k, a) ==
  IF k >= Len(row) \div BPP THEN row
  ELSE LET chunk == chunk_of(row, BPP, k)
           x == vadd_u8(uint8x8_t_load(BPP, chunk), a)
       IN neon_recon_sub_chunks(BPP, copy_from_slice(row, BPP, k, uint8x8_t_store(BPP, x)), k + 1, x)

neon_recon_sub(BPP, row) == neon_recon_sub_chunks(BPP, row, 0, uint8x8_t_zeroed)

neon_recon_up(row, prev) ==
  seq([i \in 1..Len(row) |-> IF i <= Len(prev) THEN wrapping_add(row[i], prev[i]) ELSE row[i]])

\* one pixel group of neon::recon_average: the new register x
neon_average_group(x0, a, b) ==
  LET ab_half == vhadd_u8(a, b)
  IN vadd_u8(x0, ab_half)

RECURSIVE neon_recon_average_chunks(_, _, _, _, _)
neon_recon_average_chunks(BPP, row, prev, k, a) ==
  IF k >= Min(Len(row) \div BPP, Len(prev) \div BPP) THEN row
  ELSE LET x_chunk == chunk_of(row, BPP, k)
           b == uint8x8_t_load(BPP, chunk_of(prev, BPP, k))
           x == neon_average_group(uint8x8_t_load(BPP, x_chunk), a, b)
       IN neon_recon_average_chunks(BPP, copy_from_slice(row, BPP, k, uint8x8_t_store(BPP, x)),
                                    prev, k + 1, x)

neon_recon_average(BPP, row, prev) == neon_recon_average_chunks(BPP, row, prev, 0, uint8x8_t_zeroed)

\* the registers x of neon::recon_average after the pixel groups 0..k, in
\* the order the loop computes them; xs holds the groups already done
RECURSIVE neon_average_xs(_, _, _, _, _, _)
neon_average_xs(BPP, row, prev, k, a, xs) ==
  IF Len(xs) > k THEN xs
  ELSE LET b == uint8x8_t_load(BPP, chunk_of(prev, BPP, Len(xs)))
           x == neon_average_group(uint8x8_t_load(BPP, chunk_of(row, BPP, Len(xs))), a, b)
       IN neon_average_xs(BPP, row, prev, k, x, Append(xs, x))

\* the register x of neon::recon_average after pixel group k (0-based)
neon_average_x(BPP, row, prev, k) == neon_average_xs(BPP, row, prev, k, uint8x8_t_zeroed, <<>>)[k + 1]

RECURSIVE neon_recon_average_top_chunks(_, _, _, _)
neon_recon_average_top_chunks(BPP, row, k, a) ==
  IF k >= Len(row) \div BPP THEN row
  ELSE LET chunk == chunk_of(row, BPP, k)
           x == vadd_u8(uint8x8_t_load(BPP, chunk), vshr_n_u8(a, 1))
       IN neon_recon_average_top_chunks(BPP, copy_from_slice(row, BPP, k, uint8x8_t_store(BPP, x)),
                                        k + 1, x)

neon_recon_average_top(BPP, row) == neon_recon_average_top_chunks(BPP, row, 0, uint8x8_t_zeroed)

\* let p = vsubq_s16(vaddq_s16(a, b), c)
neon_paeth_p(a, b, c) == vsubq_s16(vaddq_s16(a, b), c)

\* vabsq_s16(vsubq_s16(p, v)), one of pa, pb, pc
neon_paeth_distance(p, v) == vabsq_s16(vsubq_s16(p, v))

\* the 16-bit predictor lanes of one pixel group of neon::recon_paeth
neon_paeth_s16(a, b, c) ==
  LET p == neon_paeth_p(a, b, c)
      pa == neon_paeth_distance(p, a)
      pb == neon_paeth_distance(p, b)
      pc == neon_paeth_distance(p, c)
      pa_le_pb == vcleq_s16(pa, pb)
      pa_le_pc == vcleq_s16(pa, pc)
      pa_le_pb_and_pa_le_pc == vandq_u16(pa_le_pb, pa_le_pc)
      pb_le_pc == vcleq_s16(pb, pc)
      pick_b_or_c == vbslq_s16(pb_le_pc, b, c)
  IN vbslq_s16(pa_le_pb_and_pa_le_pc, a, pick_b_or_c)

\* one pixel group of neon::recon_paeth: the new register x
neon_paeth_group(x0, a, b, c) ==
  LET paeth_u8 == vreinterpretq_u8_s16(neon_paeth_s16(a, b, c))
      paeth == vget_low_u8(vuzp1q_u8(paeth_u8, uint8x16_t_zeroed))
  IN vadd_u8(x0, paeth)

\* the register a of the next pixel group: x widened to 16-bit lanes
neon_paeth_widen(x) ==
  LET wide_x == vcombine_u8(x, uint8x8_t_zeroed)
      zipped_x == vzip1q_u8(wide_x, uint8x16_t_zeroed)
  IN vreinterpretq_s16_u8(zipped_x)

RECURSIVE neon_recon_paeth_chunks(_, _, _, _, _, _)
neon_recon_paeth_chunks(BPP, row, prev, k, a, c) ==
  IF k >= Min(Len(row) \div BPP, Len(prev) \div BPP) THEN row
  ELSE LET x_chunk == chunk_of(row, BPP, k)
           b == int16x8_t_load(chunk_of(prev, BPP, k))
           x == neon_paeth_group(uint8x8_t_load(BPP, x_chunk), a, b, c)
       IN neon_recon_paeth_chunks(BPP, copy_from_slice(row, BPP, k, uint8x8_t_store(BPP, x)),
                                  prev, k + 1, neon_paeth_widen(x), b)

neon_recon_paeth(BPP, row, prev) ==
  neon_recon_paeth_chunks(BPP, row, prev, 0, int16x8_t_zeroed, int16x8_t_zeroed)

----------------------------------------------------------------------------
(* Inputs *)

\* the first byte of pixel group g, continued from the two drawn values
RECURSIVE group_value(_, _, _)
group_value(v1, v2, g) ==
  IF g = 1 THEN v1
  ELSE IF g = 2 THEN v2
  ELSE (group_value(v1, v2, g - 1) + group_value(v1, v2, g - 2) + 1) % 256

\* a row of `groups` pixel groups: byte ch of a group is the group's first
\* byte moved by ch * step, so that every channel sees other values
make_row(BPP, groups, v1, v2, step) ==
  seq([i \in 1..(BPP * groups) |->
     (group_value(v1, v2, ((i - 1) \div BPP) + 1) + ((i - 1) % BPP) * step) % 256])

\* the rows of the crate's tests
TestRow == <<1, 2, 3, 255, 5, 6, 7, 8>>

TestPreviousRow == <<12, 17, 127, 128, 255, 250, 7, 54>>

\* rows drawn from the samples, over a drawn row above or over the all-zero
\* row above of the top line of an image
DrawnInput ==
  /\ BYTES_PER_PIXEL \in 1..MaxBPP
  /\ \E groups \in 0..MaxGroups :
       \E x1 \in ByteSamples, x2 \in SecondSamples, b1 \in ByteSamples, b2 \in ByteSamples :
          /\ input_row = make_row(BYTES_PER_PIXEL, groups, x1, x2, 17)
          /\ \/ previous_row = make_row(BYTES_PER_PIXEL, groups, b1, b2, 29)
             \/ previous_row = zeroes(BYTES_PER_PIXEL * groups)

\* the rows of the tests, at every BYTES_PER_PIXEL that divides their length
TestInput ==
  /\ BYTES_PER_PIXEL \in {n \in 1..MaxBPP : Len(TestRow) % n = 0}
  /\ input_row = TestRow
  /\ previous_row \in {TestPreviousRow, zeroes(Len(TestRow))}

\* no call of unfilter_lines is under way
NoLines ==
  /\ lines = <<>>
  /\ input_lines = <<>>
  /\ line_index = 0
  /\ previous_args = <<>>
  /\ selected = "fallback"

\* the drawn rows go to a build with every check armed, the rows of the
\* tests to both builds
Init ==
  /\ \/ DrawnInput /\ debug_assertions = TRUE
     \/ TestInput /\ debug_assertions \in BOOLEAN
  /\ filtered_row = input_row
  /\ kernel = "none"
  /\ panicked = FALSE
  /\ NoLines

\* a row of len bytes that do not repeat
ragged_row(len, v, step) == seq([i \in 1..len |-> (v + (i - 1) * step) % 256])

\* calls that break the documented preconditions: any BYTES_PER_PIXEL from 0
\* to one past the bound, any two row lengths, either build
ContractInput ==
  /\ BYTES_PER_PIXEL \in 0..(MaxBPP + 1)
  /\ \E len \in (0..MaxLen) \cup {LongLen}, v \in RaggedSamples :
       input_row = ragged_row(len, v, 37)
  /\ \E len \in (0..MaxLen) \cup {LongLen} :
       previous_row = ragged_row(len, 201, 59)

InitContract ==
  /\ ContractInput
  /\ filtered_row = input_row
  /\ kernel = "none"
  /\ debug_assertions \in BOOLEAN
  /\ panicked = FALSE
  /\ NoLines

----------------------------------------------------------------------------
(* Calls: one action per kernel *)

\* call_recon_sub_fallback with the checks placed after the loop
call_recon_sub_fallback_late_assert ==
  /\ kernel = "none"
  /\ kernel' = "recon_sub_fallback"
  /\ filtered_row' = IF chunks_exact_mut_size(BYTES_PER_PIXEL)
                     THEN recon_sub_fallback(BYTES_PER_PIXEL, filtered_row)
                     ELSE filtered_row
  /\ panicked' = ~one_row_kernel_returns(debug_assertions, BYTES_PER_PIXEL, filtered_row)
  /\ UNCHANGED <<BYTES_PER_PIXEL, input_row, previous_row, debug_assertions, lines_vars>>

call_recon_sub_fallback ==
  /\ kernel = "none"
  /\ kernel' = "recon_sub_fallback"
  /\ IF one_row_kernel_returns(debug_assertions, BYTES_PER_PIXEL, filtered_row)
     THEN /\ filtered_row' = recon_sub_fallback(BYTES_PER_PIXEL, filtered_row)
          /\ panicked' = FALSE
     ELSE /\ filtered_row' = filtered_row
          /\ panicked' = TRUE
  /\ UNCHANGED <<BYTES_PER_PIXEL, input_row, previous_row, debug_assertions, lines_vars>>

call_recon_up_fallback ==
  /\ kernel = "none"
  /\ kernel' = "recon_up_fallback"
  /\ IF recon_up_returns(debug_assertions, filtered_row, previous_row)
     THEN /\ filtered_row' = recon_up_fallback(filtered_row, previous_row)
          /\ panicked' = FALSE
     ELSE /\ filtered_row' = filtered_row
          /\ panicked' = TRUE
  /\ UNCHANGED <<BYTES_PER_PIXEL, input_row, previous_row, debug_assertions, lines_vars>>

call_recon_average_fallback ==
  /\ kernel = "none"
  /\ kernel' = "recon_average_fallback"
  /\ IF two_row_kernel_returns(debug_assertions, BYTES_PER_PIXEL, filtered_row, previous_row)
     THEN /\ filtered_row' = recon_average_fallback(BYTES_PER_PIXEL, filtered_row, previous_row)
          /\ panicked' = FALSE
     ELSE /\ filtered_row' = filtered_row
          /\ panicked' = TRUE
  /\ UNCHANGED <<BYTES_PER_PIXEL, input_row, previous_row, debug_assertions, lines_vars>>

\* call_recon_average_top_fallback where chunks_exact_mut(0) yields no chunk
\* instead of aborting
call_recon_average_top_fallback_no_chunks ==
  /\ kernel = "none"
  /\ kernel' = "recon_average_top_fallback"
  /\ IF /\ assert_bytes_per_pixel(BYTES_PER_PIXEL)
        /\ debug_assert_row_len(debug_assertions, BYTES_PER_PIXEL, filtered_row)
     THEN /\ filtered_row' = IF chunks_exact_mut_size(BYTES_PER_PIXEL)
                             THEN recon_average_top_fallback(BYTES_PER_PIXEL, filtered_row)
                             ELSE filtered_row
          /\ panicked' = FALSE
     ELSE /\ filtered_row' = filtered_row
          /\ panicked' = TRUE
  /\ UNCHANGED <<BYTES_PER_PIXEL, input_row, previous_row, debug_assertions, lines_vars>>

call_recon_average_top_fallback ==
  /\ kernel = "none"
  /\ kernel' = "recon_average_top_fallback"
  /\ IF one_row_kernel_returns(debug_assertions, BYTES_PER_PIXEL, filtered_row)
     THEN /\ filtered_row' = recon_average_top_fallback(BYTES_PER_PIXEL, filtered_row)
          /\ panicked' = FALSE
     ELSE /\ filtered_row' = filtered_row
          /\ panicked' = TRUE
  /\ UNCHANGED <<BYTES_PER_PIXEL, input_row, previous_row, debug_assertions, lines_vars>>

call_recon_paeth_fallback ==
  /\ kernel = "none"
  /\ kernel' = "recon_paeth_fallback"
  /\ IF two_row_kernel_returns(debug_assertions, BYTES_PER_PIXEL, filtered_row, previous_row)
     THEN /\ filtered_row' = recon_paeth_fallback(BYTES_PER_PIXEL, filtered_row, previous_row)
          /\ panicked' = FALSE
     ELSE /\ filtered_row' = filtered_row
          /\ panicked' = TRUE
  /\ UNCHANGED <<BYTES_PER_PIXEL, input_row, previous_row, debug_assertions, lines_vars>>

call_fallbacks_recon_sub ==
  /\ kernel = "none"
  /\ kernel' = "fallbacks::recon_sub"
  /\ IF one_row_kernel_returns(debug_assertions, BYTES_PER_PIXEL, filtered_row)
     THEN /\ filtered_row' = fallbacks_recon_sub(BYTES_PER_PIXEL, filtered_row)
          /\ panicked' = FALSE
     ELSE /\ filtered_row' = filtered_row
          /\ panicked' = TRUE
  /\ UNCHANGED <<BYTES_PER_PIXEL, input_row, previous_row, debug_assertions, lines_vars>>

call_fallbacks_recon_paeth ==
  /\ kernel = "none"
  /\ kernel' = "fallbacks::recon_paeth"
  /\ IF two_row_kernel_returns(debug_assertions, BYTES_PER_PIXEL, filtered_row, previous_row)
     THEN /\ filtered_row' = fallbacks_recon_paeth(BYTES_PER_PIXEL, filtered_row, previous_row)
          /\ panicked' = FALSE
     ELSE /\ filtered_row' = filtered_row
          /\ panicked' = TRUE
  /\ UNCHANGED <<BYTES_PER_PIXEL, input_row, previous_row, debug_assertions, lines_vars>>

call_sse2_recon_sub ==
  /\ kernel = "none"
  /\ kernel' = "sse2::recon_sub"
  /\ IF one_row_kernel_returns(debug_assertions, BYTES_PER_PIXEL, filtered_row)
     THEN /\ filtered_row' = sse2_recon_sub(BYTES_PER_PIXEL, filtered_row)
          /\ panicked' = FALSE
     ELSE /\ filtered_row' = filtered_row
          /\ panicked' = TRUE
  /\ UNCHANGED <<BYTES_PER_PIXEL, input_row, previous_row, debug_assertions, lines_vars>>

call_sse4_1_recon_sub ==
  /\ kernel = "none"
  /\ kernel' = "sse4_1::recon_sub"
  /\ IF one_row_kernel_returns(debug_assertions, BYTES_PER_PIXEL, filtered_row)
     THEN /\ filtered_row' = sse4_1_recon_sub(BYTES_PER_PIXEL, filtered_row)
          /\ panicked' = FALSE
     ELSE /\ filtered_row' = filtered_row
          /\ panicked' = TRUE
  /\ UNCHANGED <<BYTES_PER_PIXEL, input_row, previous_row, debug_assertions, lines_vars>>

call_sse4_1_recon_up ==
  /\ kernel = "none"
  /\ kernel' = "sse4_1::recon_up"
  /\ IF recon_up_returns(debug_assertions, filtered_row, previous_row)
     THEN /\ filtered_row' = sse4_1_recon_up(filtered_row, previous_row)
          /\ panicked' = FALSE
     ELSE /\ filtered_row' = filtered_row
          /\ panicked' = TRUE
  /\ UNCHANGED <<BYTES_PER_PIXEL, input_row, previous_row, debug_assertions, lines_vars>>

call_sse4_1_recon_average ==
  /\ kernel = "none"
  /\ kernel' = "sse4_1::recon_average"
  /\ IF two_row_kernel_returns(debug_assertions, BYTES_PER_PIXEL, filtered_row, previous_row)
     THEN /\ filtered_row' = sse4_1_recon_average(BYTES_PER_PIXEL, filtered_row, previous_row)
          /\ panicked' = FALSE
     ELSE /\ filtered_row' = filtered_row
          /\ panicked' = TRUE
  /\ UNCHANGED <<BYTES_PER_PIXEL, input_row, previous_row, debug_assertions, lines_vars>>

call_sse4_1_recon_average_top ==
  /\ kernel = "none"
  /\ kernel' = "sse4_1::recon_average_top"
  /\ IF one_row_kernel_returns(debug_assertions, BYTES_PER_PIXEL, filtered_row)
     THEN /\ filtered_row' = sse4_1_recon_average_top(BYTES_PER_PIXEL, filtered_row)
          /\ panicked' = FALSE
     ELSE /\ filtered_row' = filtered_row
          /\ panicked' = TRUE
  /\ UNCHANGED <<BYTES_PER_PIXEL, input_row, previous_row, debug_assertions, lines_vars>>

call_sse4_1_recon_paeth ==
  /\ kernel = "none"
  /\ kernel' = "sse4_1::recon_paeth"
  /\ IF two_row_kernel_returns(debug_assertions, BYTES_PER_PIXEL, filtered_row, previous_row)
     THEN /\ filtered_row' = sse4_1_recon_paeth(BYTES_PER_PIXEL, filtered_row, previous_row)
          /\ panicked' = FALSE
     ELSE /\ filtered_row' = filtered_row
          /\ panicked' = TRUE
  /\ UNCHANGED <<BYTES_PER_PIXEL, input_row, previous_row, debug_assertions, lines_vars>>

call_neon_recon_sub ==
  /\ kernel = "none"
  /\ kernel' = "neon::recon_sub"
  /\ IF one_row_kernel_returns(debug_assertions, BYTES_PER_PIXEL, filtered_row)
     THEN /\ filtered_row' = neon_recon_sub(BYTES_PER_PIXEL, filtered_row)
          /\ panicked' = FALSE
     ELSE /\ filtered_row' = filtered_row
          /\ panicked' = TRUE
  /\ UNCHANGED <<BYTES_PER_PIXEL, input_row, previous_row, debug_assertions, lines_vars>>

call_neon_recon_up ==
  /\ kernel = "none"
  /\ kernel' = "neon::recon_up"
  /\ IF recon_up_returns(debug_assertions, filtered_row, previous_row)
     THEN /\ filtered_row' = neon_recon_up(filtered_row, previous_row)
          /\ panicked' = FALSE
     ELSE /\ filtered_row' = filtered_row
          /\ panicked' = TRUE
  /\ UNCHANGED <<BYTES_PER_PIXEL, input_row, previous_row, debug_assertions, lines_vars>>

call_neon_recon_average ==
  /\ kernel = "none"
  /\ kernel' = "neon::recon_average"
  /\ IF two_row_kernel_returns(debug_assertions, BYTES_PER_PIXEL, filtered_row, previous_row)
     THEN /\ filtered_row' = neon_recon_average(BYTES_PER_PIXEL, filtered_row, previous_row)
          /\ panicked' = FALSE
     ELSE /\ filtered_row' = filtered_row
          /\ panicked' = TRUE
  /\ UNCHANGED <<BYTES_PER_PIXEL, input_row, previous_row, debug_assertions, lines_vars>>

call_neon_recon_average_top ==
  /\ kernel = "none"
  /\ kernel' = "neon::recon_average_top"
  /\ IF one_row_kernel_returns(debug_assertions, BYTES_PER_PIXEL, filtered_row)
     THEN /\ filtered_row' = neon_recon_average_top(BYTES_PER_PIXEL, filtered_row)
          /\ panicked' = FALSE
     ELSE /\ filtered_row' = filtered_row
          /\ panicked' = TRUE
  /\ UNCHANGED <<BYTES_PER_PIXEL, input_row, previous_row, debug_assertions, lines_vars>>

call_neon_recon_paeth ==
  /\ kernel = "none"
  /\ kernel' = "neon::recon_paeth"
  /\ IF two_row_kernel_returns(debug_assertions, BYTES_PER_PIXEL, filtered_row, previous_row)
     THEN /\ filtered_row' = neon_recon_paeth(BYTES_PER_PIXEL, filtered_row, previous_row)
          /\ panicked' = FALSE
     ELSE /\ filtered_row' = filtered_row
          /\ panicked' = TRUE
  /\ UNCHANGED <<BYTES_PER_PIXEL, input_row, previous_row, debug_assertions, lines_vars>>

Next ==
  \/ call_recon_sub_fallback
  \/ call_recon_up_fallback
  \/ call_recon_average_fallback
  \/ call_recon_average_top_fallback
  \/ call_recon_paeth_fallback
  \/ call_fallbacks_recon_sub
  \/ call_fallbacks_recon_paeth
  \/ call_sse2_recon_sub
  \/ call_sse4_1_recon_sub
  \/ call_sse4_1_recon_up
  \/ call_sse4_1_recon_average
  \/ call_sse4_1_recon_average_top
  \/ call_sse4_1_recon_paeth
  \/ call_neon_recon_sub
  \/ call_neon_recon_up
  \/ call_neon_recon_average
  \/ call_neon_recon_average_top
  \/ call_neon_recon_paeth

Spec == Init /\ [][Next]_vars

\* the same calls on inputs that break the preconditions
SpecContract == InitContract /\ [][Next]_vars

----------------------------------------------------------------------------
(* The row dispatcher unfilter_lines *)

\* the kernel families a call can select
Families == {"fallback", "sse4_1", "neon"}

\* the tag byte and the payload of a row
tag_of(line) == line[1]

payload_of(line) == SubSeq(line, 2, Len(line))

\* the operations the call selected, by family
selected_recon_sub(family, BPP, row) ==
  CASE family = "sse4_1" -> sse4_1_recon_sub(BPP, row)
    [] family = "neon" -> neon_recon_sub(BPP, row)
    [] OTHER -> recon_sub_fallback(BPP, row)

selected_recon_up(family, row, prev) ==
  CASE family = "sse4_1" -> sse4_1_recon_up(row, prev)
    [] family = "neon" -> neon_recon_up(row, prev)
    [] OTHER -> recon_up_fallback(row, prev)

selected_recon_average(family, BPP, row, prev) ==
  CASE family = "sse4_1" -> sse4_1_recon_average(BPP, row, prev)
    [] family = "neon" -> neon_recon_average(BPP, row, prev)
    [] OTHER -> recon_average_fallback(BPP, row, prev)

selected_recon_average_top(family, BPP, row) ==
  CASE family = "sse4_1" -> sse4_1_recon_average_top(BPP, row)
    [] family = "neon" -> neon_recon_average_top(BPP, row)
    [] OTHER -> recon_average_top_fallback(BPP, row)

selected_recon_paeth(family, BPP, row, prev) ==
  CASE family = "sse4_1" -> sse4_1_recon_paeth(BPP, row, prev)
    [] family = "neon" -> neon_recon_paeth(BPP, row, prev)
    [] OTHER -> recon_paeth_fallback(BPP, row, prev)

\* the first row: Sub and AverageTop are meaningful, Paeth is aliased to Sub,
\* every other tag leaves the payload as it is
first_line_payload(family, BPP, tag, payload) ==
  CASE tag = 1 -> selected_recon_sub(family, BPP, payload)
    [] tag = 3 -> selected_recon_average_top(family, BPP, payload)
    [] tag = 4 -> selected_recon_sub(family, BPP, payload)
    [] OTHER -> payload

\* next_line_payload with Paeth as the default arm: only tag 0 is a no-op
next_line_payload_default_paeth(family, BPP, tag, payload, previous) ==
  CASE tag = 0 -> payload
    [] tag = 1 -> selected_recon_sub(family, BPP, payload)
    [] tag = 2 -> selected_recon_up(family, payload, previous)
    [] tag = 3 -> selected_recon_average(family, BPP, payload, previous)
    [] OTHER -> selected_recon_paeth(family, BPP, payload, previous)

\* a later row: dispatch on the tag, any other value is a no-op
next_line_payload(family, BPP, tag, payload, previous) ==
  CASE tag = 1 -> selected_recon_sub(family, BPP, payload)
    [] tag = 2 -> selected_recon_up(family, payload, previous)
    [] tag = 3 -> selected_recon_average(family, BPP, payload, previous)
    [] tag = 4 -> selected_recon_paeth(family, BPP, payload, previous)
    [] OTHER -> payload

\* TRUE when the kernel a first row's tag selects returns
first_line_returns(debug, BPP, tag, payload) ==
  tag \in {1, 3, 4} => one_row_kernel_returns(debug, BPP, payload)

\* TRUE when the kernel a later row's tag selects returns
next_line_returns(debug, BPP, tag, payload, previous) ==
  CASE tag = 1 -> one_row_kernel_returns(debug, BPP, payload)
    [] tag = 2 -> recon_up_returns(debug, payload, previous)
    [] tag \in {3, 4} -> two_row_kernel_returns(debug, BPP, payload, previous)
    [] OTHER -> TRUE

\* the previous-row argument a later row hands to its kernel, if any
next_line_previous_arg(tag, previous) ==
  IF tag \in {2, 3, 4} THEN <<previous>> ELSE <<>>

\* retag that clears the tags of the five filter types only
retag_recognised(tag, payload) == <<IF tag \in 0..4 THEN 0 ELSE tag>> \o payload

\* a handled row: its tag byte is forced to 0 in front of the new payload
retag(tag, payload) == <<0>> \o payload

\* the entry of the call: the hard assertion on BYTES_PER_PIXEL
unfilter_lines_enter ==
  /\ line_index = 0
  /\ ~panicked
  /\ IF assert_bytes_per_pixel(BYTES_PER_PIXEL)
     THEN line_index' = 1 /\ panicked' = FALSE
     ELSE line_index' = 0 /\ panicked' = TRUE
  /\ UNCHANGED <<kernel_vars, debug_assertions, lines, input_lines, previous_args, selected>>

\* the first row, then its tag byte is forced to 0
unfilter_first_line ==
  /\ line_index = 1
  /\ line_index <= Len(lines)
  /\ ~panicked
  /\ LET tag == tag_of(lines[1])
         payload == payload_of(lines[1])
     IN IF first_line_returns(debug_assertions, BYTES_PER_PIXEL, tag, payload)
        THEN /\ lines' = [lines EXCEPT ![1] =
                            retag(tag, first_line_payload(selected, BYTES_PER_PIXEL, tag, payload))]
             /\ previous_args' = Append(previous_args, <<>>)
             /\ line_index' = 2
             /\ panicked' = FALSE
        ELSE /\ panicked' = TRUE
             /\ UNCHANGED <<lines, previous_args, line_index>>
  /\ UNCHANGED <<kernel_vars, debug_assertions, input_lines, selected>>

\* previous_line read from the rows as they were handed in
previous_line_as_filtered == payload_of(input_lines[line_index - 1])

\* the live previous-row reference: the payload of the row handled last
previous_line == payload_of(lines[line_index - 1])

\* a later row over the payload of the row before it, as it stands now
unfilter_next_line ==
  /\ line_index > 1
  /\ line_index <= Len(lines)
  /\ ~panicked
  /\ LET tag == tag_of(lines[line_index])
         payload == payload_of(lines[line_index])
         previous == previous_line
     IN IF next_line_returns(debug_assertions, BYTES_PER_PIXEL, tag, payload, previous)
        THEN /\ lines' = [lines EXCEPT ![line_index] =
                            retag(tag, next_line_payload(selected, BYTES_PER_PIXEL, tag, payload, previous))]
             /\ previous_args' = Append(previous_args, next_line_previous_arg(tag, previous))
             /\ line_index' = line_index + 1
             /\ panicked' = FALSE
        ELSE /\ panicked' = TRUE
             /\ UNCHANGED <<lines, previous_args, line_index>>
  /\ UNCHANGED <<kernel_vars, debug_assertions, input_lines, selected>>

\* the payload of row r of a drawn image
line_payload(BPP, r, v) == make_row(BPP, LineGroups, v, (7 * v + 50 * r + 1) % 256, 17)

\* images of 0..MaxLines equal-length rows with any tag
InitLines ==
  /\ BYTES_PER_PIXEL \in LinesBPP
  /\ debug_assertions \in BOOLEAN
  /\ selected \in Families
  /\ \E n \in 0..MaxLines :
       \E tags \in [1..n -> TagSamples], vs \in [1..n -> LineSamples] :
          lines = seq([r \in 1..n |-> <<tags[r]>> \o line_payload(BYTES_PER_PIXEL, r, vs[r])])
  /\ input_lines = lines
  /\ line_index = 0
  /\ previous_args = <<>>
  /\ panicked = FALSE
  /\ input_row = <<>>
  /\ previous_row = <<>>
  /\ filtered_row = <<>>
  /\ kernel = "none"

NextLines ==
  \/ unfilter_lines_enter
  \/ unfilter_first_line
  \/ unfilter_next_line

SpecLines == InitLines /\ [][NextLines]_vars

\* the call has returned
lines_returned == line_index = Len(lines) + 1 /\ ~panicked

----------------------------------------------------------------------------
(* What the claims are stated in *)

\* the preconditions of a one-row kernel
ValidRow ==
  /\ BYTES_PER_PIXEL \in 1..MaxBPP
  /\ Len(input_row) % BYTES_PER_PIXEL = 0

\* the preconditions of a two-row kernel
ValidRows == ValidRow /\ Len(previous_row) = Len(input_row)

\* byte i - BYTES_PER_PIXEL of a row, 0 in the first pixel group
left_of(row, i) == IF i > BYTES_PER_PIXEL THEN row[i - BYTES_PER_PIXEL] ELSE 0

all_zero(row) == \A i \in 1..Len(row) : row[i] = 0

\* the Paeth predictor of the PNG standard
PaethPredictor(a, b, c) ==
  LET p == a + b - c
      pa == abs(p - a)
      pb == abs(p - b)
      pc == abs(p - c)
  IN IF pa <= pb /\ pa <= pc THEN a ELSE IF pb <= pc THEN b ELSE c

\* the three neighbours of byte i after the call
nb_a(i) == left_of(filtered_row, i)
nb_b(i) == previous_row[i]
nb_c(i) == left_of(previous_row, i)

----------------------------------------------------------------------------
(* C1 *)

\* C1: after recon_sub_fallback or fallbacks::recon_sub on a row whose length
\* is a multiple of BYTES_PER_PIXEL (1..8), byte i is (input byte i + output
\* byte i - BPP) mod 256, the left neighbour being 0 in the first pixel group:
\* the neighbour is the reconstructed byte, not the filtered one.  The test
\* row gives [1,3,6,5,10,16,23,31] at BPP 1 and [1,2,4,1,9,7,16,15] at BPP 2.
C1_SubAddsReconstructedLeft ==
  (kernel \in {"recon_sub_fallback", "fallbacks::recon_sub"} /\ ValidRow) =>
    /\ Len(filtered_row) = Len(input_row)
    /\ \A i \in 1..Len(input_row) :
         filtered_row[i] = (input_row[i] + left_of(filtered_row, i)) % 256
    /\ (input_row = TestRow /\ BYTES_PER_PIXEL = 1) => filtered_row = <<1, 3, 6, 5, 10, 16, 23, 31>>
    /\ (input_row = TestRow /\ BYTES_PER_PIXEL = 2) => filtered_row = <<1, 2, 4, 1, 9, 7, 16, 15>>

\* Sub has run on the test row at BPP 2, where the reconstructed left
\* neighbour differs from the filtered one
C1_Witness ==
  /\ kernel = "recon_sub_fallback"
  /\ BYTES_PER_PIXEL = 2
  /\ input_row = TestRow
  /\ filtered_row = <<1, 2, 4, 1, 9, 7, 16, 15>>
  /\ \E i \in 5..8 : left_of(filtered_row, i) # left_of(input_row, i)

----------------------------------------------------------------------------
(* C2 *)

\* C2: after recon_paeth_fallback on rows of equal length (a multiple of
\* BYTES_PER_PIXEL in 1..8), byte i is (input byte i + predictor) mod 256,
\* where the predictor of a (output one group left, 0 in the first group),
\* b (row above, same index) and c (row above, one group left, 0 in the
\* first group) is a if pa <= pb and pa <= pc, else b if pb <= pc, else c.
C2_PaethPredictorAndTies ==
  (kernel = "recon_paeth_fallback" /\ ValidRows) =>
    /\ Len(filtered_row) = Len(input_row)
    /\ \A i \in 1..Len(input_row) :
         filtered_row[i] = (input_row[i] + PaethPredictor(nb_a(i), nb_b(i), nb_c(i))) % 256
    /\ (input_row = TestRow /\ previous_row = TestPreviousRow /\ BYTES_PER_PIXEL = 1)
         => filtered_row = <<13, 19, 130, 129, 4, 10, 14, 62>>

\* at byte i the distances pa and pc tie below pb and a is picked, though
\* b and c are other values
paeth_tie_a_c(i) ==
  LET a == nb_a(i)
      b == nb_b(i)
      c == nb_c(i)
      p == a + b - c
  IN abs(p - a) = abs(p - c) /\ abs(p - a) <= abs(p - b) /\ a # c /\ a # b

\* at byte i the distances pb and pc tie below pa and b is picked, though
\* a and c are other values
paeth_tie_b_c(i) ==
  LET a == nb_a(i)
      b == nb_b(i)
      c == nb_c(i)
      p == a + b - c
  IN abs(p - b) = abs(p - c) /\ abs(p - a) > abs(p - b) /\ b # c /\ b # a

\* Paeth has run on a row where the tie pa = pc decides a byte: a is added
C2_Witness ==
  /\ kernel = "recon_paeth_fallback"
  /\ ValidRows
  /\ \E i \in 1..Len(input_row) :
       /\ paeth_tie_a_c(i)
       /\ filtered_row[i] = (input_row[i] + nb_a(i)) % 256
       /\ filtered_row[i] # (input_row[i] + nb_c(i)) % 256

----------------------------------------------------------------------------
(* C3 *)

\* C3: after recon_average_fallback on rows of equal length (a multiple of
\* BYTES_PER_PIXEL in 1..8), byte i is (input byte i + floor((a + b) / 2))
\* mod 256, with a the output byte one group left (0 in the first group) and
\* b the byte above; a + b is not reduced mod 256 (a = b = 255 adds 255).
C3_AverageWideSum ==
  (kernel = "recon_average_fallback" /\ ValidRows) =>
    /\ Len(filtered_row) = Len(input_row)
    /\ \A i \in 1..Len(input_row) :
         /\ filtered_row[i] = (input_row[i] + ((nb_a(i) + nb_b(i)) \div 2)) % 256
         /\ (nb_a(i) = 255 /\ nb_b(i) = 255) => filtered_row[i] = (input_row[i] + 255) % 256
    /\ (input_row = TestRow /\ previous_row = TestPreviousRow /\ BYTES_PER_PIXEL = 1)
         => filtered_row = <<7, 14, 73, 99, 182, 222, 121, 95>>

\* Average has run on a row with a byte whose neighbours a and b are both 255
C3_Witness ==
  /\ kernel = "recon_average_fallback"
  /\ ValidRows
  /\ \E i \in 1..Len(input_row) :
       nb_a(i) = 255 /\ nb_b(i) = 255 /\ filtered_row[i] = (input_row[i] + 255) % 256

----------------------------------------------------------------------------
(* C4 *)

\* C4: after recon_up_fallback on rows of equal length, byte i is (input
\* byte i + previous_row byte i) mod 256, whatever BYTES_PER_PIXEL is; the
\* test row over the test row above gives [13,19,130,127,4,0,14,62].
C4_UpElementwise ==
  (kernel = "recon_up_fallback" /\ Len(previous_row) = Len(input_row)) =>
    /\ Len(filtered_row) = Len(input_row)
    /\ \A i \in 1..Len(input_row) : filtered_row[i] = (input_row[i] + previous_row[i]) % 256
    /\ (input_row = TestRow /\ previous_row = TestPreviousRow)
         => filtered_row = <<13, 19, 130, 127, 4, 0, 14, 62>>

\* Up has run on the test rows, where two of the sums wrap
C4_Witness ==
  /\ kernel = "recon_up_fallback"
  /\ input_row = TestRow
  /\ previous_row = TestPreviousRow
  /\ filtered_row = <<13, 19, 130, 127, 4, 0, 14, 62>>
  /\ \E i \in 1..Len(input_row) : input_row[i] + previous_row[i] >= 256

----------------------------------------------------------------------------
(* C5 *)

----------------------------------------------------------------------------
(* C6 *)

----------------------------------------------------------------------------
(* C7 *)

\* C7: recon_average_top_fallback gives what recon_average_fallback gives
\* over an all-zero row above of the same length, for every BYTES_PER_PIXEL
\* in 1..8 and every row whose length is a multiple of it: byte i is (input
\* byte i + floor(a / 2)) mod 256 with a the output byte one group left.
\* The test row gives [1,2,4,1,5,8,11,13] at BPP 1.
C7_AverageTopIsAverageOverZeroRow ==
  (kernel = "recon_average_top_fallback" /\ ValidRow) =>
    /\ filtered_row = recon_average_fallback(BYTES_PER_PIXEL, input_row, zeroes(Len(input_row)))
    /\ \A i \in 1..Len(input_row) :
         filtered_row[i] = (input_row[i] + (left_of(filtered_row, i) \div 2)) % 256
    /\ (input_row = TestRow /\ BYTES_PER_PIXEL = 1) => filtered_row = <<1, 2, 4, 1, 5, 8, 11, 13>>

\* AverageTop has run on the test row at BPP 1, where halves of odd
\* neighbours are rounded down
C7_Witness ==
  /\ kernel = "recon_average_top_fallback"
  /\ BYTES_PER_PIXEL = 1
  /\ input_row = TestRow
  /\ filtered_row = <<1, 2, 4, 1, 5, 8, 11, 13>>
  /\ \E i \in 2..Len(input_row) : left_of(filtered_row, i) % 2 = 1

----------------------------------------------------------------------------
(* C8 *)

\* the number of pixel groups of the row
groups_of_row == Len(input_row) \div BYTES_PER_PIXEL

\* the registers a, b and c of the x86 Paeth kernel at pixel group k
\* (0-based), loaded from the rows as they are after the call
sse4_1_a16(k) ==
  IF k = 0 THEN ZEROED
  ELSE _mm_unpacklo_epi8(
         m128i_load_u8s(chunk_of(filtered_row, BYTES_PER_PIXEL, k - 1), BYTES_PER_PIXEL), ZEROED)
sse4_1_b16(k) == m128i_load_i16s(chunk_of(previous_row, BYTES_PER_PIXEL, k))
sse4_1_c16(k) == IF k = 0 THEN ZEROED ELSE sse4_1_b16(k - 1)

\* the registers a, b and c of the aarch64 Paeth kernel at pixel group k
neon_a16(k) ==
  IF k = 0 THEN int16x8_t_zeroed
  ELSE neon_paeth_widen(
         uint8x8_t_load(BYTES_PER_PIXEL, chunk_of(filtered_row, BYTES_PER_PIXEL, k - 1)))
neon_b16(k) == int16x8_t_load(chunk_of(previous_row, BYTES_PER_PIXEL, k))
neon_c16(k) == IF k = 0 THEN int16x8_t_zeroed ELSE neon_b16(k - 1)

\* C8: on rows of equal length (a multiple of BYTES_PER_PIXEL in 1..8) the
\* recon_paeth of sse4_1.rs and of neon.rs give byte for byte the output of
\* recon_paeth_fallback; in every pixel group the compare-and-select sequence
\* leaves in each used 16-bit lane the predictor picked with <= in the order
\* a, b, c, and narrowing the lane to 8 bits keeps that value.
C8_VectorPaethIsScalarPaeth ==
  /\ (kernel = "sse4_1::recon_paeth" /\ ValidRows) =>
       /\ filtered_row = recon_paeth_fallback(BYTES_PER_PIXEL, input_row, previous_row)
       /\ \A k \in 0..(groups_of_row - 1) :
            LET paeth16 == sse4_1_paeth16(sse4_1_a16(k), sse4_1_b16(k), sse4_1_c16(k))
                paeth == _mm_packus_epi16(paeth16, ZEROED)
            IN \A j \in 1..BYTES_PER_PIXEL :
                 LET i == k * BYTES_PER_PIXEL + j
                 IN /\ i16_lane(paeth16, j) = PaethPredictor(nb_a(i), nb_b(i), nb_c(i))
                    /\ paeth[j] = PaethPredictor(nb_a(i), nb_b(i), nb_c(i))
  /\ (kernel = "neon::recon_paeth" /\ ValidRows) =>
       /\ filtered_row = recon_paeth_fallback(BYTES_PER_PIXEL, input_row, previous_row)
       /\ \A k \in 0..(groups_of_row - 1) :
            LET paeth_s16 == neon_paeth_s16(neon_a16(k), neon_b16(k), neon_c16(k))
                paeth == vget_low_u8(vuzp1q_u8(vreinterpretq_u8_s16(paeth_s16), uint8x16_t_zeroed))
            IN \A j \in 1..BYTES_PER_PIXEL :
                 LET i == k * BYTES_PER_PIXEL + j
                 IN /\ paeth_s16[j] = PaethPredictor(nb_a(i), nb_b(i), nb_c(i))
                    /\ paeth[j] = PaethPredictor(nb_a(i), nb_b(i), nb_c(i))

\* the x86 Paeth kernel has run on a row where the tie pb = pc decides a
\* byte whose predictor is 128 or more: b is added
C8_Witness ==
  /\ kernel = "sse4_1::recon_paeth"
  /\ ValidRows
  /\ \E i \in 1..Len(input_row) :
       /\ paeth_tie_b_c(i)
       /\ filtered_row[i] = (input_row[i] + nb_b(i)) % 256
       /\ filtered_row[i] # (input_row[i] + nb_c(i)) % 256
  /\ \E i \in 1..Len(input_row) : PaethPredictor(nb_a(i), nb_b(i), nb_c(i)) >= 128

----------------------------------------------------------------------------
(* C9 *)

\* C9: on rows of equal length (a multiple of BYTES_PER_PIXEL in 1..8) the
\* recon_average of sse4_1.rs and of neon.rs give byte for byte the output
\* of recon_average_fallback, also where a = b = 255; after every pixel
\* group the lanes of the register x above BYTES_PER_PIXEL are zero, and so
\* are the lanes of the register a carried to the next pixel group.
C9_VectorAverageIsScalarAverage ==
  /\ (kernel = "sse4_1::recon_average" /\ ValidRows) =>
       /\ filtered_row = recon_average_fallback(BYTES_PER_PIXEL, input_row, previous_row)
       /\ \A k \in 0..(groups_of_row - 1) :
            LET x == sse4_1_average_x(BYTES_PER_PIXEL, input_row, previous_row, k)
                a == _mm_unpacklo_epi8(x, ZEROED)
            IN /\ m128i_store_u8s(x, BYTES_PER_PIXEL) = chunk_of(filtered_row, BYTES_PER_PIXEL, k)
               /\ \A i \in (BYTES_PER_PIXEL + 1)..M128I_BYTES : x[i] = 0
               /\ \A j \in (BYTES_PER_PIXEL + 1)..I16_LANES : i16_lane(a, j) = 0
  /\ (kernel = "neon::recon_average" /\ ValidRows) =>
       /\ filtered_row = recon_average_fallback(BYTES_PER_PIXEL, input_row, previous_row)
       /\ \A k \in 0..(groups_of_row - 1) :
            LET x == neon_average_x(BYTES_PER_PIXEL, input_row, previous_row, k)
            IN /\ uint8x8_t_store(BYTES_PER_PIXEL, x) = chunk_of(filtered_row, BYTES_PER_PIXEL, k)
               /\ \A i \in (BYTES_PER_PIXEL + 1)..UINT8X8_BYTES : x[i] = 0

\* the aarch64 Average kernel has run on a row of fewer than 8 bytes per
\* pixel with a byte whose neighbours a and b are both 255
C9_Witness ==
  /\ kernel = "neon::recon_average"
  /\ ValidRows
  /\ BYTES_PER_PIXEL < UINT8X8_BYTES
  /\ \E i \in 1..Len(input_row) :
       nb_a(i) = 255 /\ nb_b(i) = 255 /\ filtered_row[i] = (input_row[i] + 255) % 256

----------------------------------------------------------------------------
(* C10 *)

\* C10: on every row whose length is a multiple of BYTES_PER_PIXEL (1..8)
\* the recon_sub of sse2.rs, sse4_1.rs and neon.rs give byte for byte the
\* output of recon_sub_fallback, and the recon_average_top of sse4_1.rs and
\* neon.rs that of recon_average_top_fallback: a byte sum that passes 255
\* wraps in its own lane and adds nothing to the next lane.
C10_VectorOneRowKernelsAreScalar ==
  /\ (kernel \in {"sse2::recon_sub", "sse4_1::recon_sub", "neon::recon_sub"} /\ ValidRow) =>
       /\ filtered_row = recon_sub_fallback(BYTES_PER_PIXEL, input_row)
       /\ \A i \in 1..Len(input_row) :
            filtered_row[i] = (input_row[i] + left_of(filtered_row, i)) % 256
  /\ (kernel \in {"sse4_1::recon_average_top", "neon::recon_average_top"} /\ ValidRow) =>
       /\ filtered_row = recon_average_top_fallback(BYTES_PER_PIXEL, input_row)
       /\ \A i \in 1..Len(input_row) :
            filtered_row[i] = (input_row[i] + (left_of(filtered_row, i) \div 2)) % 256

\* the sse2 Sub kernel has run on a row where a byte sum passes 255 in a
\* lane that has a used lane above it
C10_Witness ==
  /\ kernel = "sse2::recon_sub"
  /\ ValidRow
  /\ \E i \in 1..Len(input_row) :
       /\ i % BYTES_PER_PIXEL # 0
       /\ input_row[i] + left_of(filtered_row, i) >= 256
       /\ filtered_row[i + 1] = (input_row[i + 1] + left_of(filtered_row, i + 1)) % 256

----------------------------------------------------------------------------
(* C11 *)

\* C11: once unfilter_lines has returned, the image has the rows it was
\* handed and the tag byte of every row is 0, whatever tag the row came
\* with; and while the call runs, every row already handled has tag 0
C11_EveryTagIsZero ==
  /\ Len(lines) = Len(input_lines)
  /\ \A r \in 1..Len(lines) :
       /\ Len(lines[r]) = Len(input_lines[r])
       /\ (line_index > r) => tag_of(lines[r]) = 0
  /\ lines_returned => \A r \in 1..Len(lines) : tag_of(lines[r]) = 0

\* C11 witness: a returned call on two rows, one that came with an
\* unrecognised tag and one with the tag of a filter type
C11_Witness ==
  /\ lines_returned
  /\ Len(lines) = 2
  /\ tag_of(input_lines[1]) = 255
  /\ tag_of(input_lines[2]) = 4
  /\ tag_of(lines[1]) = 0
  /\ tag_of(lines[2]) = 0

----------------------------------------------------------------------------
(* C12 *)

\* C12: unfilter_lines handles the rows in increasing order, one per step:
\* the rows from line_index on are still as they were handed in, and for
\* every handled row r >= 2 that came with tag 2, 3 or 4 the previous-row
\* argument was the payload of row r - 1 as it stands after its own
\* reconstruction (row r - 1 already has tag 0), and the payload of row r is
\* the Up, Average or Paeth reconstruction over that payload; a row that
\* came with tag 1 is the Sub reconstruction and passed no previous row
C12_RowsInOrderOverReconstructedPrevious ==
  /\ Len(previous_args) = (IF line_index = 0 THEN 0 ELSE line_index - 1)
  /\ \A r \in 1..Len(lines) : r >= line_index => lines[r] = input_lines[r]
  /\ \A r \in 1..Len(previous_args) :
       LET tag == tag_of(input_lines[r])
           in == payload_of(input_lines[r])
           x == payload_of(lines[r])
           prev == IF r > 1 THEN payload_of(lines[r - 1]) ELSE <<>>
       IN /\ (r >= 2 /\ tag \in {2, 3, 4}) =>
               /\ previous_args[r] = <<prev>>
               /\ tag_of(lines[r - 1]) = 0
          /\ (r = 1 \/ tag \notin {2, 3, 4}) => previous_args[r] = <<>>
          /\ tag = 1 =>
               \A j \in 1..Len(x) : x[j] = (in[j] + left_of(x, j)) % 256
          /\ (r >= 2 /\ tag = 2) =>
               \A j \in 1..Len(x) : x[j] = (in[j] + prev[j]) % 256
          /\ (r >= 2 /\ tag = 3) =>
               \A j \in 1..Len(x) : x[j] = (in[j] + (left_of(x, j) + prev[j]) \div 2) % 256
          /\ (r >= 2 /\ tag = 4) =>
               \A j \in 1..Len(x) :
                  x[j] = (in[j] + PaethPredictor(left_of(x, j), prev[j], left_of(prev, j))) % 256

\* C12 witness: a returned call whose second row came with tag 4 over a first
\* row that Sub has changed, so the reconstructed and the filtered previous
\* row differ and give different second rows
C12_Witness ==
  /\ lines_returned
  /\ Len(lines) = 2
  /\ tag_of(input_lines[1]) = 1
  /\ tag_of(input_lines[2]) = 4
  /\ payload_of(lines[1]) # payload_of(input_lines[1])
  /\ previous_args[2] = <<payload_of(lines[1])>>
  /\ payload_of(lines[2]) #
       recon_paeth_fallback(BYTES_PER_PIXEL, payload_of(input_lines[2]), payload_of(input_lines[1]))

----------------------------------------------------------------------------
(* C13 *)

----------------------------------------------------------------------------
(* C14 *)

\* C14: at every point of a call of unfilter_lines, a row that came with tag
\* 0 or with a tag outside 0..4 has the payload bytes it came with, first
\* row or later, so only its tag byte can change; and a call with
\* BYTES_PER_PIXEL <= 8 on equal-length rows never aborts
C14_NoOpTagsKeepPayload ==
  /\ \A r \in 1..Len(lines) :
       tag_of(input_lines[r]) \notin 1..4 =>
          payload_of(lines[r]) = payload_of(input_lines[r])
  /\ BYTES_PER_PIXEL <= MaxBPP => ~panicked

\* C14 witness: a returned call whose second row came with tag 255 under a
\* first row that Sub changed: the second row is retagged and otherwise as
\* it came
C14_Witness ==
  /\ lines_returned
  /\ Len(lines) = 2
  /\ tag_of(input_lines[1]) = 1
  /\ payload_of(lines[1]) # payload_of(input_lines[1])
  /\ tag_of(input_lines[2]) = 255
  /\ tag_of(lines[2]) = 0
  /\ payload_of(lines[2]) = payload_of(input_lines[2])
  /\ \E j \in 1..Len(payload_of(lines[1])) : payload_of(lines[1])[j] # 0

----------------------------------------------------------------------------
(* C15 *)

\* the calls of Up, which has no BYTES_PER_PIXEL
UpKernels == {"recon_up_fallback", "sse4_1::recon_up", "neon::recon_up"}

\* the calls of the kernels generic over BYTES_PER_PIXEL
GroupedKernel == kernel \notin UpKernels \cup {"none"}

\* C15: a call of a kernel generic over BYTES_PER_PIXEL (Sub, Average,
\* AverageTop, Paeth; scalar or vector) with BYTES_PER_PIXEL > 8 aborts in
\* the debug and in the release build and leaves every byte of the row as it
\* was; a call of Up aborts only for unequal lengths in a debug build,
\* whatever BYTES_PER_PIXEL is
C15_BppAboveEightAborts ==
  /\ (GroupedKernel /\ BYTES_PER_PIXEL > 8) =>
        (panicked /\ filtered_row = input_row)
  /\ (kernel \in UpKernels) =>
        (panicked <=> (debug_assertions /\ Len(input_row) # Len(previous_row)))

\* C15 witness: a release-build call of the vector Paeth kernel with
\* BYTES_PER_PIXEL = 9 on two rows of two 9-byte groups, which the loop would
\* have changed, has aborted with the row untouched
C15_Witness ==
  /\ kernel = "sse4_1::recon_paeth"
  /\ BYTES_PER_PIXEL = 9
  /\ ~debug_assertions
  /\ Len(input_row) = LongLen
  /\ Len(previous_row) = LongLen
  /\ recon_paeth_fallback(9, input_row, previous_row) # input_row
  /\ panicked
  /\ filtered_row = input_row

----------------------------------------------------------------------------
(* C16 *)

\* the calls of the kernels that take no previous row
OneRowKernels ==
  {"recon_sub_fallback", "recon_average_top_fallback", "fallbacks::recon_sub",
   "sse2::recon_sub", "sse4_1::recon_sub", "sse4_1::recon_average_top",
   "neon::recon_sub", "neon::recon_average_top"}

\* the calls of Up, Average and Paeth
TwoRowKernel == kernel \notin OneRowKernels \cup {"none"}

\* C16: in a debug build, a call of a kernel generic over BYTES_PER_PIXEL
\* on a row whose length is no multiple of BYTES_PER_PIXEL has aborted, and
\* so has a call of Up, Average or Paeth on two rows of different lengths;
\* in both cases the row is byte for byte as it was handed in
C16_DebugBuildChecks ==
  debug_assertions =>
    /\ (GroupedKernel /\ BYTES_PER_PIXEL >= 1 /\ Len(input_row) % BYTES_PER_PIXEL # 0) =>
          (panicked /\ filtered_row = input_row)
    /\ (TwoRowKernel /\ Len(input_row) # Len(previous_row)) =>
          (panicked /\ filtered_row = input_row)

\* C16 witness: a debug-build call of recon_average_fallback at
\* BYTES_PER_PIXEL = 2 on two rows of 5 bytes, which the loop would have
\* changed, has aborted with the row untouched
C16_Witness ==
  /\ debug_assertions
  /\ kernel = "recon_average_fallback"
  /\ BYTES_PER_PIXEL = 2
  /\ Len(input_row) = 5
  /\ Len(previous_row) = 5
  /\ recon_average_fallback(2, input_row, previous_row) # input_row
  /\ panicked
  /\ filtered_row = input_row

----------------------------------------------------------------------------
(* C17 *)

\* byte channel ch (1-based) of a row of BPP-byte pixel groups
channel(row, BPP, ch) == seq([g \in 1..(Len(row) \div BPP) |-> row[(g - 1) * BPP + ch]])

\* n bytes taken in turn from BPP channels
interleave(chs, BPP, n) ==
  seq([i \in 1..n |-> chs[((i - 1) % BPP) + 1][((i - 1) \div BPP) + 1]])

\* the scalar kernels generic over BYTES_PER_PIXEL
ScalarGroupedKernels ==
  {"recon_sub_fallback", "recon_average_fallback", "recon_average_top_fallback",
   "recon_paeth_fallback", "fallbacks::recon_sub", "fallbacks::recon_paeth"}

\* the result of the named scalar kernel
kernel_result(name, BPP, row, prev) ==
  CASE name = "recon_sub_fallback" -> recon_sub_fallback(BPP, row)
    [] name = "recon_average_fallback" -> recon_average_fallback(BPP, row, prev)
    [] name = "recon_average_top_fallback" -> recon_average_top_fallback(BPP, row)
    [] name = "recon_paeth_fallback" -> recon_paeth_fallback(BPP, row, prev)
    [] name = "fallbacks::recon_sub" -> fallbacks_recon_sub(BPP, row)
    [] name = "fallbacks::recon_paeth" -> fallbacks_recon_paeth(BPP, row, prev)

\* the named kernel run at BYTES_PER_PIXEL = 1 on every byte channel of the
\* row(s), the results interleaved again
by_channels(name, BPP, row, prev) ==
  interleave(seq([ch \in 1..BPP |->
               kernel_result(name, 1, channel(row, BPP, ch), channel(prev, BPP, ch))]),
             BPP, Len(row))

\* C17: after a call of scalar Sub, Average, AverageTop or Paeth at
\* BYTES_PER_PIXEL in 1..8 on rows that meet the preconditions, the row is
\* what one gets by splitting the row(s) into BYTES_PER_PIXEL byte channels,
\* running the same kernel at BYTES_PER_PIXEL = 1 on each channel and
\* interleaving the results: byte i depends on the bytes at indices
\* congruent to i modulo BYTES_PER_PIXEL only
C17_ChannelsAreIndependent ==
  (kernel \in ScalarGroupedKernels /\ ValidRows) =>
     filtered_row = by_channels(kernel, BYTES_PER_PIXEL, input_row, previous_row)

\* C17 witness: recon_average_fallback at BYTES_PER_PIXEL = 3 on two pixel
\* groups, where taking the left neighbour from the next channel, or from the
\* byte before (BYTES_PER_PIXEL = 1), would give another row
C17_Witness ==
  /\ kernel = "recon_average_fallback"
  /\ BYTES_PER_PIXEL = 3
  /\ Len(input_row) = 6
  /\ ValidRows
  /\ filtered_row # input_row
  /\ filtered_row # recon_average_fallback(1, input_row, previous_row)
  /\ filtered_row # recon_average_fallback_chunks_rotated_a(3, input_row, previous_row, 0, zeroes(3))
  /\ filtered_row = by_channels(kernel, 3, input_row, previous_row)

----------------------------------------------------------------------------
(* C18 *)

\* the result of the named vector kernel
vector_kernel_result(name, BPP, row, prev) ==
  CASE name = "sse2::recon_sub" -> sse2_recon_sub(BPP, row)
    [] name = "sse4_1::recon_sub" -> sse4_1_recon_sub(BPP, row)
    [] name = "sse4_1::recon_average" -> sse4_1_recon_average(BPP, row, prev)
    [] name = "sse4_1::recon_average_top" -> sse4_1_recon_average_top(BPP, row)
    [] name = "sse4_1::recon_paeth" -> sse4_1_recon_paeth(BPP, row, prev)
    [] name = "neon::recon_sub" -> neon_recon_sub(BPP, row)
    [] name = "neon::recon_average" -> neon_recon_average(BPP, row, prev)
    [] name = "neon::recon_average_top" -> neon_recon_average_top(BPP, row)
    [] name = "neon::recon_paeth" -> neon_recon_paeth(BPP, row, prev)

\* the result of the named kernel generic over BYTES_PER_PIXEL
grouped_kernel_result(name, BPP, row, prev) ==
  IF name \in ScalarGroupedKernels THEN kernel_result(name, BPP, row, prev)
  ELSE vector_kernel_result(name, BPP, row, prev)

\* m of the claim: the row length, for a two-row kernel the smaller of the
\* two row lengths
usable_len == IF kernel \in OneRowKernels THEN Len(input_row)
              ELSE Min(Len(input_row), Len(previous_row))

\* the bytes covered by whole pixel groups: BPP * floor(m / BPP)
grouped_len == BYTES_PER_PIXEL * (usable_len \div BYTES_PER_PIXEL)

\* C18: in a release build (debug assertions off) no call with
\* BYTES_PER_PIXEL in 1..8 aborts, whatever the two row lengths are.  A
\* grouped kernel (Sub, Average, AverageTop, Paeth; scalar or vector) leaves
\* every byte after the first BPP * floor(m / BPP) as it was, and these first
\* bytes are the reconstruction of the rows cut to that length.  Up adds the
\* byte above to exactly the first min(row length, previous-row length) bytes
\* and leaves the rest
C18_ReleaseBuildTolerance ==
  (~debug_assertions /\ kernel # "none") =>
    /\ Len(filtered_row) = Len(input_row)
    /\ (GroupedKernel /\ BYTES_PER_PIXEL \in 1..MaxBPP) =>
          /\ ~panicked
          /\ \A i \in (grouped_len + 1)..Len(input_row) : filtered_row[i] = input_row[i]
          /\ SubSeq(filtered_row, 1, grouped_len) =
               grouped_kernel_result(kernel, BYTES_PER_PIXEL,
                                     SubSeq(input_row, 1, grouped_len),
                                     SubSeq(previous_row, 1, grouped_len))
    /\ (kernel \in UpKernels) =>
          /\ ~panicked
          /\ \A i \in 1..Len(input_row) :
               filtered_row[i] = IF i <= usable_len
                                 THEN (input_row[i] + previous_row[i]) % 256
                                 ELSE input_row[i]

\* C18 witness: a release-build call of recon_up_fallback on a 5-byte row
\* over a longer previous row has changed byte 5, which recon_paeth_fallback
\* at BYTES_PER_PIXEL = 2 leaves filtered while it changes the four bytes of
\* the two whole pixel groups
C18_Witness ==
  /\ ~debug_assertions
  /\ kernel = "recon_up_fallback"
  /\ ~panicked
  /\ BYTES_PER_PIXEL = 2
  /\ Len(input_row) = 5
  /\ Len(previous_row) = 6
  /\ filtered_row[5] # input_row[5]
  /\ recon_paeth_fallback(2, input_row, previous_row)[5] = input_row[5]
  /\ \A i \in 1..4 : recon_paeth_fallback(2, input_row, previous_row)[i] # input_row[i]

----------------------------------------------------------------------------
(* C19 *)

\* the calls of Paeth
PaethKernels ==
  {"recon_paeth_fallback", "fallbacks::recon_paeth", "sse4_1::recon_paeth", "neon::recon_paeth"}

\* C19: after a call of a Paeth kernel on rows that meet the preconditions,
\* at every byte, with a, b, c its three neighbours: the i16 values p, pa,
\* pb, pc of the scalar code are the exact integers a + b - c, |p - a|,
\* |p - b|, |p - c|, with -255 <= p <= 510 and 0 <= pa, pb, pc <= 510, and
\* the argument of abs is never the minimum i16; the predictor is one of a,
\* b, c, lies in 0..255 and is left whole by `as u8`.  In the vector kernels
\* the 16-bit lanes of p, pa, pb, pc hold the same exact values, and the
\* saturating pack (x86) and the even-byte extraction (aarch64) of the
\* predictor lanes give the predictor itself
C19_PaethStaysInRange ==
  (kernel \in PaethKernels /\ ValidRows) =>
    /\ \A i \in 1..Len(input_row) :
         LET a == nb_a(i)
             b == nb_b(i)
             c == nb_c(i)
             p == paeth_fallback_p(a, b, c)
             pa == paeth_fallback_distance(p, a)
             pb == paeth_fallback_distance(p, b)
             pc == paeth_fallback_distance(p, c)
             predictor == PaethPredictor(a, b, c)
         IN /\ p = a + b - c
            /\ p \in (0 - 255)..510
            /\ pa = abs(b - c) /\ pb = abs(a - c) /\ pc = abs(a + b - c - c)
            /\ {pa, pb, pc} \subseteq 0..510
            /\ {p - a, p - b, p - c} \subseteq (0 - 32767)..32767
            /\ predictor \in {a, b, c}
            /\ predictor \in 0..255
            /\ as_u8(predictor) = predictor
            /\ filtered_row[i] = wrapping_add(input_row[i], predictor)
    /\ (kernel = "sse4_1::recon_paeth") =>
         \A k \in 0..(groups_of_row - 1) :
            LET a16 == sse4_1_a16(k)
                b16 == sse4_1_b16(k)
                c16 == sse4_1_c16(k)
                p16 == sse4_1_paeth_p(a16, b16, c16)
                pa16 == sse4_1_paeth_distance(p16, a16)
                pb16 == sse4_1_paeth_distance(p16, b16)
                pc16 == sse4_1_paeth_distance(p16, c16)
                paeth == _mm_packus_epi16(sse4_1_paeth16(a16, b16, c16), ZEROED)
            IN \A j \in 1..BYTES_PER_PIXEL :
                 LET i == k * BYTES_PER_PIXEL + j
                     p == nb_a(i) + nb_b(i) - nb_c(i)
                 IN /\ i16_lane(p16, j) = p
                    /\ i16_lane(pa16, j) = abs(p - nb_a(i))
                    /\ i16_lane(pb16, j) = abs(p - nb_b(i))
                    /\ i16_lane(pc16, j) = abs(p - nb_c(i))
                    /\ paeth[j] = PaethPredictor(nb_a(i), nb_b(i), nb_c(i))
    /\ (kernel = "neon::recon_paeth") =>
         \A k \in 0..(groups_of_row - 1) :
            LET a16 == neon_a16(k)
                b16 == neon_b16(k)
                c16 == neon_c16(k)
                p16 == neon_paeth_p(a16, b16, c16)
                pa16 == neon_paeth_distance(p16, a16)
                pb16 == neon_paeth_distance(p16, b16)
                pc16 == neon_paeth_distance(p16, c16)
                paeth == vget_low_u8(vuzp1q_u8(
                           vreinterpretq_u8_s16(neon_paeth_s16(a16, b16, c16)),
                           uint8x16_t_zeroed))
            IN \A j \in 1..BYTES_PER_PIXEL :
                 LET i == k * BYTES_PER_PIXEL + j
                     p == nb_a(i) + nb_b(i) - nb_c(i)
                 IN /\ p16[j] = p
                    /\ pa16[j] = abs(p - nb_a(i))
                    /\ pb16[j] = abs(p - nb_b(i))
                    /\ pc16[j] = abs(p - nb_c(i))
                    /\ paeth[j] = PaethPredictor(nb_a(i), nb_b(i), nb_c(i))

\* C19 witness: the x86 Paeth kernel has met a = b = 255 over c = 0, where
\* p = 510 and pc = 510, the largest values, and the predictor 255 went
\* through the pack whole
C19_Witness ==
  /\ kernel = "sse4_1::recon_paeth"
  /\ ValidRows
  /\ \E i \in 1..Len(input_row) :
       /\ nb_a(i) = 255 /\ nb_b(i) = 255 /\ nb_c(i) = 0
       /\ paeth_fallback_p(255, 255, 0) = 510
       /\ paeth_fallback_distance(510, 0) = 510
       /\ filtered_row[i] = wrapping_add(input_row[i], 255)

----------------------------------------------------------------------------
(* C20 *)

\* C20: with a = c = 0 the Paeth byte of the scalar code adds exactly b, for
\* every b in 0..255; so after recon_paeth_fallback on rows that meet the
\* preconditions the first BYTES_PER_PIXEL bytes are those recon_up_fallback
\* gives on the same rows, the filtered byte plus the byte above, and a row
\* of a single pixel group is the row recon_up_fallback gives
C20_FirstGroupPaethIsUp ==
  (kernel = "recon_paeth_fallback" /\ ValidRows) =>
    /\ \A b \in 0..255 : paeth_fallback_byte(0, 0, b, 0) = b
    /\ \A i \in 1..Min(BYTES_PER_PIXEL, Len(input_row)) :
         /\ filtered_row[i] = recon_up_fallback(input_row, previous_row)[i]
         /\ filtered_row[i] = (input_row[i] + previous_row[i]) % 256
    /\ (Len(input_row) = BYTES_PER_PIXEL) =>
         filtered_row = recon_up_fallback(input_row, previous_row)

\* C20 witness: recon_paeth_fallback has run at BYTES_PER_PIXEL = 4 on a row
\* of one pixel group over a row above with a byte of 128 or more, and the
\* row it left is the changed row Up gives
C20_Witness ==
  /\ kernel = "recon_paeth_fallback"
  /\ ValidRows
  /\ BYTES_PER_PIXEL = 4
  /\ Len(input_row) = 4
  /\ \E i \in 1..4 : previous_row[i] >= 128
  /\ filtered_row # input_row
  /\ filtered_row = recon_up_fallback(input_row, previous_row)

----------------------------------------------------------------------------
(* C21 *)

\* C21: a call of a kernel generic over BYTES_PER_PIXEL (Sub, Average,
\* AverageTop, Paeth; scalar or vector) with BYTES_PER_PIXEL = 0 has aborted
\* with every byte of the row as it was, whatever the two rows are, the
\* empty row included, although assert!(BYTES_PER_PIXEL <= 8) lets 0
\* through: in a debug build the remainder by 0 of the row-length check
\* aborts, and in a release build, where the debug checks are compiled out,
\* the chunk size 0 of chunks_exact_mut aborts
C21_BppZeroIsRejected ==
  (GroupedKernel /\ BYTES_PER_PIXEL = 0) =>
    /\ panicked
    /\ filtered_row = input_row
    /\ assert_bytes_per_pixel(BYTES_PER_PIXEL)
    /\ debug_assertions =>
         ~debug_assert_row_len(debug_assertions, BYTES_PER_PIXEL, input_row)
    /\ ~debug_assertions =>
         /\ debug_assert_row_len(debug_assertions, BYTES_PER_PIXEL, input_row)
         /\ debug_assert_same_len(debug_assertions, input_row, previous_row)
         /\ ~chunks_exact_mut_size(BYTES_PER_PIXEL)

\* C21 witness: a release-build call of recon_average_top_fallback with
\* BYTES_PER_PIXEL = 0 on the empty row has aborted
C21_Witness ==
  /\ kernel = "recon_average_top_fallback"
  /\ BYTES_PER_PIXEL = 0
  /\ ~debug_assertions
  /\ input_row = <<>>
  /\ panicked
  /\ filtered_row = input_row

----------------------------------------------------------------------------
(* C22 *)

\* the kernels of sse4_1.rs generic over BYTES_PER_PIXEL
Sse41GroupedKernels ==
  {"sse4_1::recon_sub", "sse4_1::recon_average", "sse4_1::recon_average_top",
   "sse4_1::recon_paeth"}

\* the kernels of neon.rs generic over BYTES_PER_PIXEL
NeonGroupedKernels ==
  {"neon::recon_sub", "neon::recon_average", "neon::recon_average_top", "neon::recon_paeth"}

\* C22: after a call of a vector kernel on rows that meet the preconditions,
\* every slice view the kernel has built over a register (m128i_as_mut_slice,
\* m128i_as_mut_u8s, m128i_as_mut_i16s, uint8x8_t_as_mut_slice,
\* int16x8_t_as_mut_slice) spans element count times element size = the size
\* of the register (16 bytes, 8 for uint8x8_t), the i16 view of a 128-bit
\* register has exactly 8 elements, and the elements the load and store
\* helpers reach lie inside the view and inside the BYTES_PER_PIXEL-sized
\* prefix of the chunk
C22_ViewsStayInsideRegister ==
  (ValidRows /\ groups_of_row > 0) =>
    /\ (kernel = "sse2::recon_sub") =>
         /\ from_raw_parts_mut_bytes(m128i_as_mut_slice_len, size_of_u8) = M128I_BYTES
         /\ prefix_reach(BYTES_PER_PIXEL) \subseteq 1..m128i_as_mut_slice_len
    /\ (kernel \in Sse41GroupedKernels) =>
         /\ from_raw_parts_mut_bytes(m128i_as_mut_u8s_len, size_of_u8) = M128I_BYTES
         /\ prefix_reach(BYTES_PER_PIXEL) \subseteq 1..m128i_as_mut_u8s_len
    /\ (kernel \in {"sse4_1::recon_average", "sse4_1::recon_paeth"}) =>
         /\ from_raw_parts_mut_bytes(m128i_as_mut_i16s_len, size_of_i16) = M128I_BYTES
         /\ m128i_as_mut_i16s_len = 8
         /\ \A k \in 0..(groups_of_row - 1) :
              LET reach == zip_reach(m128i_as_mut_i16s_len,
                                     chunk_of(previous_row, BYTES_PER_PIXEL, k))
              IN /\ reach \subseteq 1..BYTES_PER_PIXEL
                 /\ from_raw_parts_mut_bytes(Cardinality(reach), size_of_i16) <= M128I_BYTES
    /\ (kernel \in NeonGroupedKernels) =>
         /\ from_raw_parts_mut_bytes(uint8x8_t_as_mut_slice_len, size_of_u8) = UINT8X8_BYTES
         /\ prefix_reach(BYTES_PER_PIXEL) \subseteq 1..uint8x8_t_as_mut_slice_len
    /\ (kernel = "neon::recon_paeth") =>
         /\ from_raw_parts_mut_bytes(int16x8_t_as_mut_slice_len, size_of_i16) = INT16X8_BYTES
         /\ int16x8_t_as_mut_slice_len = 8
         /\ \A k \in 0..(groups_of_row - 1) :
              LET reach == zip_reach(int16x8_t_as_mut_slice_len,
                                     chunk_of(previous_row, BYTES_PER_PIXEL, k))
              IN /\ reach \subseteq 1..BYTES_PER_PIXEL
                 /\ from_raw_parts_mut_bytes(Cardinality(reach), size_of_i16) <= INT16X8_BYTES

====
